---- MODULE Spec2Model ----
(***************************************************************************)
(* Retention engine of google-doc-backup (download_google_doc.pyw).        *)
(*                                                                         *)
(* A run processes the remote documents one at a time through              *)
(* download_google_file_as_ms_office, which decides SKIP / RENAME / FETCH  *)
(* against the local backup directory and then prunes the timestamped      *)
(* captures of the document's base name.                                   *)
(*                                                                         *)
(* Time is counted in ticks, TicksPerSec ticks to the second, so that the  *)
(* sub-second part of a modification time and the truncation done by       *)
(* strftime("%Y-%m-%d_%H-%M-%S") are both visible.                         *)
(***************************************************************************)
EXTENDS Integers, Sequences, FiniteSets, TLC

\* ---------------------------------------------------------------- bounds
MaxDocs == 2          \* remote documents, numbered in order of creation
MaxStamp == 4         \* whole seconds 0..MaxStamp appear in file names
TicksPerSec == 2      \* resolution of modification times
MaxN == 3             \* largest retention count given to --newest / --staggered
MaxRuns == 2          \* invocations of the program in one behaviour
RunStamp == 1         \* documents of the multi-run specification change within 0..RunStamp
RunN == 1             \* largest retention count in the multi-run specification
MaxFaults == 1        \* filesystem calls that raise in one behaviour
MaxM == 7             \* captures in the directory of the staggered specification
MaxKeep == 7          \* largest retention count in the staggered specification
MaxFolders == 2       \* folders on Drive besides the root of My Drive
MaxSegs == 2          \* segments of a path given to the resolver
MaxCalls == 2         \* calls of the resolver and of the ancestor walk in one run

Docs == 1..MaxDocs
Stamps == 0..MaxStamp
Times == 0..(TicksPerSec * (MaxStamp + 1) - 1)
RunTimes == 0..(TicksPerSec * (RunStamp + 1) - 1)
Titles == {<<"a">>, <<"b">>}

None == <<>>          \* Python's None, for an option that was not given
Some(n) == <<n>>

VARIABLES
    remote,     \* Drive: document id -> [title, modified]
    fs,         \* the files of the output directory
    dirExists,  \* whether the output directory exists
    cfg,        \* the parsed command line of the current run
    queue,      \* documents of the current run still to be processed
    last,       \* what the latest call of the download handler did
    fs0,        \* fs as it was when the current run started
    dir0,       \* dirExists as it was when the current run started
    runNo,      \* number of runs started
    hist,       \* what happened since the previous run started
    args,       \* --newest and --staggered as given on the command line
    folders,    \* Drive: folder id -> [title, parent]
    folder_cache, \* the global cache: path -> folder id, folder id -> [title, parent]
    res,        \* what the latest call of the resolver or of the ancestor walk did
    calls,      \* number of such calls in this run
    batch       \* the loop of the global search over the files Drive listed

\* the variables of the retention engine and those of the resolver
dvars == <<remote, fs, dirExists, cfg, queue, last, fs0, dir0, runNo, hist, args>>
rvars == <<folders, folder_cache, res, calls, batch>>
vars == <<remote, fs, dirExists, cfg, queue, last, fs0, dir0, runNo, hist, args,
          folders, folder_cache, res, calls, batch>>

\* ------------------------------------------------------- names and times
InvalidChars == {"\\", "/", "*", "?", ":", "\"", "<", ">", "|"}
max_length == 100

RECURSIVE lstrip(_)
lstrip(s) == IF s # <<>> /\ Head(s) = " " THEN lstrip(Tail(s)) ELSE s

RECURSIVE rstrip(_)
rstrip(s) ==
    IF s # <<>> /\ s[Len(s)] = " " THEN rstrip(SubSeq(s, 1, Len(s) - 1)) ELSE s

\* os.path.splitext: index of the dot that starts the extension, 0 if none
\* (a dot is an extension separator only if a non-dot character precedes it).
SplitAt(s) ==
    LET dots == {i \in 1..Len(s) :
                    s[i] = "." /\ \E j \in 1..(i - 1) : s[j] # "."}
    IN  IF dots = {} THEN 0 ELSE CHOOSE i \in dots : \A j \in dots : j <= i

sanitize_filename(filename) ==
    LET replaced == [i \in 1..Len(filename) |->
                        IF filename[i] \in InvalidChars THEN "_" ELSE filename[i]]
        sanitized == rstrip(lstrip(replaced))
        k == SplitAt(sanitized)
        name == IF k = 0 THEN sanitized ELSE SubSeq(sanitized, 1, k - 1)
        ext == IF k = 0 THEN <<>> ELSE SubSeq(sanitized, k, Len(sanitized))
    IN  (IF Len(name) > max_length THEN SubSeq(name, 1, max_length) ELSE name) \o ext

\* f"{sanitize_filename(meta['title'])}{suffix}{'.' + orig_ext}"
BaseName(title, suffix) == sanitize_filename(title) \o suffix \o <<".", "gdoc">>

\* mod_dt.strftime("%Y-%m-%d_%H-%M-%S"): the fraction of a second is dropped
timestamp_str(t) == t \div TicksPerSec

\* meta.get("modifiedDate") is missing, or date_parser.parse raises on it
NoDate == -1

\* (variant: the name is stamped with the time of the call)
stamp_of_clock(meta, now) == timestamp_str(now)

\* timestamp_str of the handler: of modifiedDate, of datetime.now() without it
stamp_of(meta, now) ==
    IF meta.modified = NoDate THEN timestamp_str(now) ELSE timestamp_str(meta.modified)

Abs(x) == IF x < 0 THEN -x ELSE x

\* (variant: the two times are compared for equality)
UpToDateExact(local, google) == local = google

\* abs(local_mod_ts - google_mod_ts) < 1.0
UpToDate(local, google) == Abs(local - google) < TicksPerSec

\* --------------------------------------------------------- the filesystem
\* A file is [base, ts, mtime, content]: ts = <<>> for the plain target
\* <base>.<ext> and <<s>> for <base>_<s>.<ext>.
Plain == <<>>

Exists(files, base, ts) == \E f \in files : f.base = base /\ f.ts = ts

FileAt(files, base, ts) == CHOOSE f \in files : f.base = base /\ f.ts = ts

Without(files, base, ts) == {f \in files : ~(f.base = base /\ f.ts = ts)}

\* writing, or renaming onto, a name replaces the file that had it
Put(files, f) == Without(files, f.base, f.ts) \cup {f}


\* ------------------------------------------------------------- pruning
\* glob.glob(<base>_*.<ext>) filtered by ts_regex: the timestamped captures
\* of base, in the order the directory listing happens to give them.
RECURSIVE Listed(_, _)
Listed(S, order) ==
    IF S = {} THEN <<>>
    ELSE LET f == CHOOSE x \in S : \A y \in S :
                     IF order = "asc" THEN x.ts[1] <= y.ts[1] ELSE x.ts[1] >= y.ts[1]
         IN  <<f>> \o Listed(S \ {f}, order)

backups_with_ts(files, base, order) ==
    Listed({f \in files : f.base = base /\ f.ts # Plain}, order)

\* list.sort(key=lambda x: x[1], reverse=...): stable, equal keys keep their order
Before(x, y, reverse) == IF reverse THEN x.ts[1] > y.ts[1] ELSE x.ts[1] < y.ts[1]

\* (variant: the list is left in the order of the glob)
SortByTsUnsorted(s, reverse) == s

RECURSIVE SortByTs(_, _)
SortByTs(s, reverse) ==
    IF s = <<>> THEN <<>>
    ELSE LET x == Head(s)
             rest == SortByTs(Tail(s), reverse)
             k == Cardinality({i \in 1..Len(rest) : Before(rest[i], x, reverse)})
         IN  SubSeq(rest, 1, k) \o <<x>> \o SubSeq(rest, k + 1, Len(rest))

RECURSIVE Pow(_, _)
Pow(b, e) == IF e = 0 THEN 1 ELSE b * Pow(b, e - 1)

\* (variant: int() without round(), which truncates)
StaggerIdxTrunc(m, n, i) ==
    CHOOSE k \in 0..m :
        /\ Pow(k, n - 1) <= Pow(m - 1, i)
        /\ Pow(k + 1, n - 1) > Pow(m - 1, i)

\* int(round(math.exp(math.log(m - 1) * i / (n - 1)))): the integer nearest to
\* (m-1)^(i/(n-1)), i.e. the least k with (m-1)^i * 2^(n-1) < (2k+1)^(n-1)
\* (the value is never half-way between two integers).
StaggerIdx(m, n, i) ==
    CHOOSE k \in 0..m :
        /\ Pow(m - 1, i) * Pow(2, n - 1) < Pow(2 * k + 1, n - 1)
        /\ \A j \in 0..(k - 1) : Pow(m - 1, i) * Pow(2, n - 1) >= Pow(2 * j + 1, n - 1)

Min(a, b) == IF a < b THEN a ELSE b
Max(a, b) == IF a > b THEN a ELSE b

\* (variant: the loop starts at 1 and never appends index 0)
keep_indices_from_one(m, n) ==
    IF n = 1 THEN {m - 1}
    ELSE {IF i = n - 1 THEN m - 1
          ELSE Min(Max(StaggerIdx(m, n, i), 0), m - 1) : i \in 1..(n - 1)}

\* (variant: n = 1 keeps index 0, the oldest)
keep_indices_oldest(m, n) ==
    IF n = 1 THEN {0}
    ELSE {IF i = 0 THEN 0
          ELSE IF i = n - 1 THEN m - 1
          ELSE Min(Max(StaggerIdx(m, n, i), 0), m - 1) : i \in 0..(n - 1)}

\* keep_indices of the staggered branch (0-based, as in the code)
keep_indices(m, n) ==
    IF n = 1 THEN {m - 1}
    ELSE {IF i = 0 THEN 0
          ELSE IF i = n - 1 THEN m - 1
          ELSE Min(Max(StaggerIdx(m, n, i), 0), m - 1) : i \in 0..(n - 1)}

\* (variant: the slice starts one element too late)
NewestTailOffByOne(sorted, n) ==
    IF Len(sorted) > n + 1 THEN {sorted[i].ts[1] : i \in (n + 2)..Len(sorted)} ELSE {}

\* backups_with_ts[prune_newest:] of the list sorted newest first
NewestTail(sorted, n) ==
    IF Len(sorted) > n THEN {sorted[i].ts[1] : i \in (n + 1)..Len(sorted)} ELSE {}

\* the files of the list sorted oldest first that are not in files_to_keep
StaggeredRest(sorted, n) ==
    IF Len(sorted) > n
    THEN {sorted[i].ts[1] : i \in 1..Len(sorted)}
         \ {sorted[i + 1].ts[1] : i \in keep_indices(Len(sorted), n)}
    ELSE {}

\* The captures the prune pass sets out to delete, as a set of stamps.
PruneSet(files, base, c, order) ==
    IF c.prune_newest # None
    THEN NewestTail(SortByTs(backups_with_ts(files, base, order), TRUE), c.prune_newest[1])
    ELSE IF c.prune_staggered # None
    THEN StaggeredRest(SortByTs(backups_with_ts(files, base, order), FALSE),
                       c.prune_staggered[1])
    ELSE {}

\* ------------------------------------------------------------ the handler
\* download_google_file_as_ms_office, in the order of its code. Every stage
\* takes the directory state (files, dir) and the record of the call so far and
\* gives [fs, dir, call]: the new directory state and what the call did.
\* fault is the filesystem call that raises (if any), now the wall clock of the
\* write, order the order of the glob, live = not dry_run.
NoFault == [op |-> "none", ts |-> 0]

Op(name, ts, ok) == [op |-> name, ts |-> ts, ok |-> ok]

NoCall == [doc |-> 0, base |-> <<>>, decision |-> "NONE", target |-> Plain,
           ops |-> <<>>, pruned |-> FALSE, captures |-> {}, deleted |-> {},
           clock |-> NoDate]

Result(files, dir, call) == [fs |-> files, dir |-> dir, call |-> call]

Captures(files, base) == {f.ts[1] : f \in {g \in files : g.base = base /\ g.ts # Plain}}

\* (variant: the loop over the captures to delete ends after its first turn)
RemoveAllOnce(files, dir, call, base, fault, live, deleted) ==
    Result({f \in files : ~(/\ live
                            /\ f.base = base
                            /\ f.ts # Plain
                            /\ f.ts[1] \in {s \in deleted : \A t \in deleted : s <= t}
                            /\ ~(fault.op = "remove" /\ fault.ts = f.ts[1]))},
           dir,
           [call EXCEPT
              !.pruned = TRUE,
              !.captures = Captures(files, base),
              !.deleted = {s \in deleted : \A t \in deleted : s <= t},
              !.ops = @ \o (IF live
                            THEN [i \in 1..Cardinality({s \in deleted : \A t \in deleted : s <= t}) |->
                                    LET s == CHOOSE x \in deleted : \A t \in deleted : x <= t
                                    IN  Op("remove", <<s>>,
                                           ~(fault.op = "remove" /\ fault.ts = s))]
                            ELSE <<>>)])

\* os.remove of every capture to delete, each in its own try
RemoveAll(files, dir, call, base, fault, live, deleted) ==
    Result({f \in files : ~(/\ live
                            /\ f.base = base
                            /\ f.ts # Plain
                            /\ f.ts[1] \in deleted
                            /\ ~(fault.op = "remove" /\ fault.ts = f.ts[1]))},
           dir,
           [call EXCEPT
              !.pruned = TRUE,
              !.captures = Captures(files, base),
              !.deleted = deleted,
              !.ops = @ \o (IF live
                            THEN [i \in 1..Cardinality(deleted) |->
                                    LET s == CHOOSE x \in deleted :
                                               Cardinality({y \in deleted : y < x}) = i - 1
                                    IN  Op("remove", <<s>>,
                                           ~(fault.op = "remove" /\ fault.ts = s))]
                            ELSE <<>>)])

\* if prune_newest is not None or prune_staggered is not None: ...
PrunePass(files, dir, call, base, c, fault, live, order) ==
    IF c.prune_newest # None \/ c.prune_staggered # None
    THEN RemoveAll(files, dir, call, base, fault, live, PruneSet(files, base, c, order))
    ELSE Result(files, dir, call)

\* (variant: a failed download does not return, the prune pass still runs)
FetchThenPruneAnyway(files, dir, call, meta, base, c, fault, now, live, order) ==
    IF live /\ fault.op = "fetch"
    THEN PrunePass(files, dir,
                   [call EXCEPT !.ops = @ \o <<Op("fetch", call.target, FALSE)>>],
                   base, c, fault, live, order)
    ELSE PrunePass(
            IF live
            THEN Put(files, [base |-> base, ts |-> call.target,
                             mtime |-> IF fault.op = "utime" \/ meta.modified = NoDate
                                       THEN now ELSE meta.modified,
                             content |-> <<meta.id, meta.modified>>])
            ELSE files,
            dir,
            [call EXCEPT !.ops = @ \o (IF live /\ meta.modified # NoDate
                                       THEN <<Op("fetch", call.target, TRUE),
                                              Op("utime", call.target, fault.op # "utime")>>
                                       ELSE IF live
                                       THEN <<Op("fetch", call.target, TRUE)>>
                                       ELSE <<>>)],
            base, c, fault, live, order)

\* GetContentFile to new_target, then os.utime; a failed download returns
Fetch(files, dir, call, meta, base, c, fault, now, live, order) ==
    IF live /\ fault.op = "fetch"
    THEN Result(files, dir, [call EXCEPT !.ops = @ \o <<Op("fetch", call.target, FALSE)>>])
    ELSE PrunePass(
            IF live
            THEN Put(files, [base |-> base, ts |-> call.target,
                             mtime |-> IF fault.op = "utime" \/ meta.modified = NoDate
                                       THEN now ELSE meta.modified,
                             content |-> <<meta.id, meta.modified>>])
            ELSE files,
            dir,
            [call EXCEPT !.ops = @ \o (IF live /\ meta.modified # NoDate
                                       THEN <<Op("fetch", call.target, TRUE),
                                              Op("utime", call.target, fault.op # "utime")>>
                                       ELSE IF live
                                       THEN <<Op("fetch", call.target, TRUE)>>
                                       ELSE <<>>)],
            base, c, fault, live, order)

\* os.rename(plain_target, backup_path): the backup takes the name
\* <base>_<timestamp_str>.<ext> and keeps the content and mtime of the plain file
Renamed(files, base, stamp) ==
    Put(Without(files, base, Plain), [FileAt(files, base, Plain) EXCEPT !.ts = <<stamp>>])

\* (variant: the test of add_timestamp is missing)
BackupAlways(files, dir, call, meta, base, c, fault, now, live, order) ==
    IF Exists(files, base, Plain)
    THEN Fetch(IF live /\ fault.op # "rename"
               THEN Renamed(files, base, stamp_of(meta, now))
               ELSE files,
               dir,
               [call EXCEPT !.decision = "RENAME",
                            !.ops = @ \o (IF live
                                          THEN <<Op("rename", <<stamp_of(meta, now)>>,
                                                    fault.op # "rename")>>
                                          ELSE <<>>)],
               meta, base, c, fault, now, live, order)
    ELSE Fetch(files, dir, [call EXCEPT !.decision = "FETCH"],
               meta, base, c, fault, now, live, order)

\* (variant: the existing plain target is overwritten without a backup)
BackupNever(files, dir, call, meta, base, c, fault, now, live, order) ==
    Fetch(files, dir, [call EXCEPT !.decision = "FETCH"],
          meta, base, c, fault, now, live, order)

\* if not add_timestamp and os.path.exists(plain_target): rename to backup
Backup(files, dir, call, meta, base, c, fault, now, live, order) ==
    IF ~c.add_timestamp /\ Exists(files, base, Plain)
    THEN Fetch(IF live /\ fault.op # "rename"
               THEN Renamed(files, base, stamp_of(meta, now))
               ELSE files,
               dir,
               [call EXCEPT !.decision = "RENAME",
                            !.ops = @ \o (IF live
                                          THEN <<Op("rename", <<stamp_of(meta, now)>>,
                                                    fault.op # "rename")>>
                                          ELSE <<>>)],
               meta, base, c, fault, now, live, order)
    ELSE Fetch(files, dir, [call EXCEPT !.decision = "FETCH"],
               meta, base, c, fault, now, live, order)

\* (variant: --no-clobber is not looked at)
SkipsUpToDateOnly(files, base, meta, c) ==
    /\ ~c.add_timestamp
    /\ Exists(files, base, Plain)
    /\ UpToDate(FileAt(files, base, Plain).mtime, meta.modified)

\* the two early returns: up-to-date plain target, --no-clobber
Skips(files, base, meta, c) ==
    \/ /\ ~c.add_timestamp
       /\ Exists(files, base, Plain)
       /\ meta.modified # NoDate
       /\ UpToDate(FileAt(files, base, Plain).mtime, meta.modified)
    \/ /\ c.no_clobber
       /\ Exists(files, base, Plain)

Decide(files, dir, call, meta, base, c, fault, now, live, order) ==
    IF Skips(files, base, meta, c)
    THEN Result(files, dir, [call EXCEPT !.decision = "SKIP"])
    ELSE Backup(files, dir, call, meta, base, c, fault, now, live, order)

\* os.makedirs(full_output_directory, exist_ok=True) unless dry_run
MakeDirs(files, dir, call, meta, base, c, fault, now, live, order) ==
    IF live /\ ~dir /\ fault.op = "mkdir"
    THEN Result(files, dir, [call EXCEPT !.decision = "ERROR",
                                         !.ops = <<Op("mkdir", Plain, FALSE)>>])
    ELSE Decide(files, dir \/ live,
                [call EXCEPT !.ops = IF live /\ ~dir
                                     THEN <<Op("mkdir", Plain, TRUE)>> ELSE <<>>],
                meta, base, c, fault, now, live, order)

\* get_export_mimetype: the format a kind of document is exported to
get_export_mimetype(kind) ==
    IF kind = "document" THEN Some("docx")
    ELSE IF kind = "spreadsheet" THEN Some("xlsx")
    ELSE IF kind = "presentation" THEN Some("pptx")
    ELSE None

\* (variant: the directory is made before the kind is looked at)
ExportAfterMakeDirs(files, dir, call, meta, base, c, fault, now, live, order) ==
    IF get_export_mimetype(meta.kind) = None
    THEN Result(files, dir \/ live,
                [call EXCEPT !.decision = "UNSUPPORTED",
                             !.ops = IF live /\ ~dir
                                     THEN <<Op("mkdir", Plain, TRUE)>> ELSE <<>>])
    ELSE MakeDirs(files, dir, call, meta, base, c, fault, now, live, order)

\* if export_mimetype is None: return
Export(files, dir, call, meta, base, c, fault, now, live, order) ==
    IF get_export_mimetype(meta.kind) = None
    THEN Result(files, dir, [call EXCEPT !.decision = "UNSUPPORTED"])
    ELSE MakeDirs(files, dir, call, meta, base, c, fault, now, live, order)

\* (variant: dry_run is not passed on to the filesystem calls)
download_ignoring_dry_run(files, dir, meta, suffix, c, fault, now, order) ==
    Export(files, dir,
           [NoCall EXCEPT !.doc = meta.id,
                          !.clock = IF meta.modified = NoDate THEN now ELSE NoDate,
                          !.base = BaseName(meta.title, suffix),
                          !.target = IF c.add_timestamp
                                     THEN <<stamp_of(meta, now)>> ELSE Plain],
           meta, BaseName(meta.title, suffix), c, fault, now, TRUE, order)

download_google_file_as_ms_office(files, dir, meta, suffix, c, fault, now, order) ==
    Export(files, dir,
           [NoCall EXCEPT !.doc = meta.id,
                          !.clock = IF meta.modified = NoDate THEN now ELSE NoDate,
                          !.base = BaseName(meta.title, suffix),
                          !.target = IF c.add_timestamp
                                     THEN <<stamp_of(meta, now)>> ELSE Plain],
           meta, BaseName(meta.title, suffix), c, fault, now, ~c.dry_run, order)

\* ------------------------------------------------------------------ runs
Meta(d) == [id |-> d, title |-> remote[d].title, modified |-> remote[d].modified,
            kind |-> remote[d].kind]

Perms(S) == {p \in [1..Cardinality(S) -> S] : \A x \in S : \E i \in DOMAIN p : p[i] = x}

\* suffix = "" if i == 0 else f" ({i})"
DupSuffix(i) == IF i = 0 THEN <<>> ELSE <<" ", "(", ToString(i), ")">>

RECURSIVE Flatten(_)
Flatten(ss) == IF ss = <<>> THEN <<>> ELSE Head(ss) \o Flatten(Tail(ss))

\* find_files_in_drive on one folder: the listing is grouped by title in order
\* of first appearance, each group sorted by createdDate (the document number)
\* and numbered to give the duplicate suffix.
find_files_in_drive(listing) ==
    LET first(t) == CHOOSE i \in DOMAIN listing :
                        /\ remote[listing[i]].title = t
                        /\ \A j \in 1..(i - 1) : remote[listing[j]].title # t
        titles == {remote[listing[i]].title : i \in DOMAIN listing}
        rank(t) == Cardinality({u \in titles : first(u) < first(t)}) + 1
        group(t) == {d \in DOMAIN remote : remote[d].title = t}
        nth(t, i) == CHOOSE d \in group(t) :
                        Cardinality({e \in group(t) : e < d}) = i
        entries(t) == [i \in 1..Cardinality(group(t)) |->
                          [id |-> nth(t, i - 1), suffix |-> DupSuffix(i - 1)]]
    IN  Flatten([r \in 1..Cardinality(titles) |->
                    entries(CHOOSE t \in titles : rank(t) = r)])

\* process_global_search: every listed file is downloaded with suffix = ""
global_entries(listing) ==
    [i \in DOMAIN listing |-> [id |-> listing[i], suffix |-> <<>>]]

Options(N) == {None} \cup {Some(n) : n \in 0..N}

NoArgs == [newest |-> None, staggered |-> None]

\* folder_cache = {}
EmptyCache == [paths |-> <<>>, ids |-> <<>>]

NoRes == [op |-> "none", input |-> <<>>, start |-> 0, key |-> <<>>, id |-> 0,
          steps |-> <<>>, pre |-> <<>>, failed |-> {}, parts |-> <<>>, raised |-> FALSE,
          depth |-> 0, entries |-> {}, listed |-> <<>>, downloads |-> {},
          order |-> "asc", dates |-> [newer |-> None, older |-> None]]

\* file_list of process_global_search still to be gone through, the documents
\* handed to the download handler with their subfolder_path, the folders whose
\* metadata FetchMetadata returned, and whether the loop was left
NoBatch == [files |-> <<>>, handled |-> <<>>, fetched |-> <<>>, ended |-> FALSE]

\* the retention engine alone: no folder is looked up
NoResolver ==
    /\ folders = <<>>
    /\ folder_cache = EmptyCache
    /\ res = NoRes
    /\ calls = 0
    /\ batch = NoBatch

\* (variant: --staggered takes precedence over --newest)
staggered_first(newest, staggered) ==
    [prune_newest |-> IF staggered # None THEN None ELSE newest,
     prune_staggered |-> staggered]

\* main: prune_newest = args.newest
\*       prune_staggered = None if prune_newest is not None else args.staggered
prune_options(newest, staggered) ==
    [prune_newest |-> newest,
     prune_staggered |-> IF newest # None THEN None ELSE staggered]

\* main: parse the options, list the documents, start the loop over them.
\* Every run of a behaviour is given the same command line. The two retention
\* options as typed are kept in args if record is set.
Start(N, Modes, record) ==
    /\ queue = <<>>
    /\ runNo < MaxRuns
    /\ \E ts \in BOOLEAN, nc \in BOOLEAN, dry \in BOOLEAN,
          newest \in Options(N), staggered \in Options(N) :
          LET c == [add_timestamp |-> ts, no_clobber |-> nc, dry_run |-> dry,
                    global |-> cfg.global,
                    prune_newest |-> prune_options(newest, staggered).prune_newest,
                    prune_staggered |-> prune_options(newest, staggered).prune_staggered]
          IN  /\ \/ /\ ~hist.configured
                    /\ \E glb \in Modes : cfg' = [c EXCEPT !.global = glb]
                 \/ /\ hist.configured
                    /\ c = cfg
                    /\ cfg' = cfg
              /\ args' = IF record
                         THEN [newest |-> newest, staggered |-> staggered]
                         ELSE args
    /\ \E listing \in Perms(DOMAIN remote) :
          queue' = IF cfg'.global THEN global_entries(listing)
                   ELSE find_files_in_drive(listing)
    /\ hist' = [hist EXCEPT !.configured = TRUE, !.edited = FALSE,
                             !.repeat = hist.configured /\ ~hist.edited,
                             !.prevFaults = hist.faults]
    /\ runNo' = runNo + 1
    /\ fs0' = fs
    /\ dir0' = dirExists
    /\ last' = NoCall
    /\ UNCHANGED <<remote, fs, dirExists>>
    /\ UNCHANGED rvars

StartRun(N, Modes) == Start(N, Modes, FALSE)

Faults == {NoFault}
          \cup {[op |-> o, ts |-> 0] : o \in {"mkdir", "rename", "fetch", "utime"}}
          \cup {[op |-> "remove", ts |-> s] : s \in Stamps}

\* The wall clock at the moment the file is written: not before the document
\* was modified. It shows in the model only if os.utime raises or the document
\* has no date.
Clock(fault, modified) ==
    IF modified = NoDate
    THEN Times
    ELSE IF fault.op = "utime"
    THEN {t \in Times : t >= modified /\ t <= modified + TicksPerSec}
    ELSE {modified}

Raised(call) == \E i \in DOMAIN call.ops : ~call.ops[i].ok

\* the state after a call of the handler that gave r; a fault that no
\* filesystem call of this run of the handler could meet is no behaviour
Commit(r, fault) ==
    /\ fault = NoFault \/ Raised(r.call)
    /\ fs' = r.fs
    /\ dirExists' = r.dir
    /\ last' = r.call
    /\ hist' = [hist EXCEPT !.faults = IF Raised(r.call) THEN @ + 1 ELSE @]

\* one iteration of the loop over the documents: the whole download handler
ProcessNext ==
    /\ queue # <<>>
    /\ \E fault \in (IF hist.faults < MaxFaults THEN Faults ELSE {NoFault}),
          order \in {"asc", "desc"} :
       \E now \in Clock(fault, remote[Head(queue).id].modified) :
          Commit(download_google_file_as_ms_office(
                     fs, dirExists, Meta(Head(queue).id), Head(queue).suffix,
                     cfg, fault, now, order),
                 fault)
    /\ queue' = Tail(queue)
    /\ UNCHANGED <<remote, cfg, fs0, dir0, runNo, args>>
    /\ UNCHANGED rvars

\* between two runs a document is edited on Drive
RemoteEdit(T) ==
    /\ queue = <<>>
    /\ runNo >= 1
    /\ runNo < MaxRuns
    /\ ~hist.edited
    /\ \E d \in DOMAIN remote, t \in T :
          /\ t > remote[d].modified
          /\ remote' = [remote EXCEPT ![d].modified = t]
    /\ hist' = [hist EXCEPT !.edited = TRUE]
    /\ UNCHANGED <<fs, dirExists, cfg, queue, last, fs0, dir0, runNo, args>>
    /\ UNCHANGED rvars

NoCfg == [add_timestamp |-> FALSE, no_clobber |-> FALSE, dry_run |-> FALSE,
          global |-> FALSE, prune_newest |-> None, prune_staggered |-> None]

NoHist == [configured |-> FALSE, edited |-> FALSE, repeat |-> FALSE,
           faults |-> 0, prevFaults |-> 0]

\* the second document was modified half a second, or a second, after the first
InitTimes == {1, TicksPerSec}

\* An empty backup directory and MaxDocs documents on Drive.
Init ==
    /\ remote \in [Docs -> [title : Titles, modified : {0} \cup InitTimes,
                             kind : {"document"}]]
    /\ remote[1] = [title |-> <<"a">>, modified |-> 0, kind |-> "document"]
    /\ \A d \in Docs \ {1} : remote[d].modified \in InitTimes
    /\ fs = {}
    /\ dirExists = FALSE
    /\ cfg = NoCfg
    /\ queue = <<>>
    /\ last = NoCall
    /\ fs0 = {}
    /\ dir0 = FALSE
    /\ runNo = 0
    /\ hist = NoHist
    /\ args = NoArgs
    /\ NoResolver

Next ==
    \/ StartRun(RunN, BOOLEAN)
    \/ ProcessNext
    \/ RemoteEdit(RunTimes)

Spec == Init /\ [][Next]_vars

\* A backup directory that earlier runs have filled with captures of one
\* document, and one more run over it. The document was last modified half a
\* second into the first, the middle or the last second of the range; its
\* plain copy is missing, as old as can be, half a second old or a second old.
InitPrune ==
    /\ \E s \in {0, MaxStamp \div 2, MaxStamp} :
          remote = (1 :> [title |-> <<"a">>, modified |-> TicksPerSec * s + 1,
                          kind |-> "document"])
    /\ \E S \in SUBSET Stamps,
          P \in {{}, {0}, {remote[1].modified - 1},
                 {Max(remote[1].modified - TicksPerSec, 0)}} :
          /\ fs = {[base |-> BaseName(remote[1].title, <<>>), ts |-> <<s>>,
                    mtime |-> TicksPerSec * s, content |-> <<1, TicksPerSec * s>>] : s \in S}
                  \cup {[base |-> BaseName(remote[1].title, <<>>), ts |-> Plain,
                         mtime |-> p, content |-> <<1, p>>] : p \in P}
    /\ dirExists \in {TRUE, fs # {}}
    /\ cfg = NoCfg
    /\ queue = <<>>
    /\ last = NoCall
    /\ fs0 = fs
    /\ dir0 = dirExists
    /\ runNo = MaxRuns - 1
    /\ hist = NoHist
    /\ args = NoArgs
    /\ NoResolver

NextPrune ==
    \/ StartRun(MaxN, {TRUE})
    \/ ProcessNext

SpecPrune == InitPrune /\ [][NextPrune]_vars

\* A run in directory mode over two documents of which the first has a date
\* and the second may have none; each may have a plain copy from an earlier run.
InitDate ==
    /\ remote \in [{1, 2} -> [title : Titles, modified : {NoDate, 1, TicksPerSec + 1},
                               kind : {"document"}]]
    /\ remote[1] = [title |-> <<"a">>, modified |-> 1, kind |-> "document"]
    /\ remote[2].title = <<"b">>
    /\ \E P \in SUBSET {1, 2} :
          fs = {[base |-> BaseName(remote[d].title, <<>>),
                 ts |-> Plain, mtime |-> 0, content |-> <<d, 0>>] : d \in P}
    /\ dirExists = TRUE
    /\ cfg = NoCfg
    /\ queue = <<>>
    /\ last = NoCall
    /\ fs0 = fs
    /\ dir0 = dirExists
    /\ runNo = MaxRuns - 1
    /\ hist = NoHist
    /\ args = NoArgs
    /\ NoResolver

NextDate ==
    \/ StartRun(RunN, {FALSE})
    \/ ProcessNext

SpecDate == InitDate /\ [][NextDate]_vars

\* A global search whose listing holds documents of a kind that has no export
\* format beside documents that have one; the directory does not exist yet.
Kinds == {"document", "drawing"}

InitKind ==
    /\ remote \in [Docs -> [title : Titles, modified : {1}, kind : Kinds]]
    /\ \A d \in Docs : remote[d].title = (IF d = 1 THEN <<"a">> ELSE <<"b">>)
    /\ fs \in {{}, {[base |-> BaseName(remote[1].title, <<>>), ts |-> Plain,
                     mtime |-> 0, content |-> <<1, 0>>]}}
    /\ dirExists = (fs # {})
    /\ cfg = NoCfg
    /\ queue = <<>>
    /\ last = NoCall
    /\ fs0 = fs
    /\ dir0 = dirExists
    /\ runNo = MaxRuns - 1
    /\ hist = NoHist
    /\ args = NoArgs
    /\ NoResolver

NextKind ==
    \/ StartRun(RunN, {TRUE})
    \/ ProcessNext

SpecKind == InitKind /\ [][NextKind]_vars

\* A backup directory holding the k oldest of MaxM captures of one document
\* that has no plain copy yet, and one run over it with retention counts up to
\* MaxKeep; the document was last modified after the newest capture.
InitStagger ==
    /\ remote = (1 :> [title |-> <<"a">>, modified |-> TicksPerSec * MaxM + 1,
                       kind |-> "document"])
    /\ \E k \in 0..MaxM :
          fs = {[base |-> BaseName(remote[1].title, <<>>), ts |-> <<s>>,
                 mtime |-> TicksPerSec * s, content |-> <<1, TicksPerSec * s>>] :
                s \in 0..(k - 1)}
    /\ dirExists = TRUE
    /\ cfg = NoCfg
    /\ queue = <<>>
    /\ last = NoCall
    /\ fs0 = fs
    /\ dir0 = dirExists
    /\ runNo = MaxRuns - 1
    /\ hist = NoHist
    /\ args = NoArgs
    /\ NoResolver

NextStagger ==
    \/ Start(MaxKeep, {FALSE}, TRUE)
    \/ ProcessNext

SpecStagger == InitStagger /\ [][NextStagger]_vars


\* ============================================================== resolver
\* find_folder_id and the folder cache. Titles and path segments are sequences
\* of characters; a path is the sequence of its segments (drive_path split at
\* os.path.sep), and the cache key of a path is that sequence.
IsSpace(c) == c = " "

\* str.lower on the characters of the model
Lower(c) == IF c = "P" THEN "p" ELSE IF c = "Q" THEN "q" ELSE IF c = "R" THEN "r" ELSE c

RECURSIVE Collapse(_)
\* re.sub(r'\s+', ' ', s)
Collapse(s) ==
    IF s = <<>> THEN <<>>
    ELSE IF IsSpace(Head(s))
    THEN <<" ">> \o Collapse(lstrip(Tail(s)))
    ELSE <<Head(s)>> \o Collapse(Tail(s))

\* normalize: colon to space, whitespace collapsed, stripped, lower case
normalize(title) ==
    LET spaced == [i \in 1..Len(title) |-> IF title[i] = ":" THEN " " ELSE title[i]]
        stripped == rstrip(lstrip(Collapse(spaced)))
    IN  [i \in 1..Len(stripped) |-> Lower(stripped[i])]

\* re.search(r'\s{2,}', folder_name)
HasSpaceRun(s) == \E i \in 1..(Len(s) - 1) : IsSpace(s[i]) /\ IsSpace(s[i + 1])

RECURSIVE alt_name_first(_)
\* (variant: count=1, only the first run is replaced)
alt_name_first(s) ==
    IF s = <<>> THEN <<>>
    ELSE IF Len(s) >= 2 /\ IsSpace(s[1]) /\ IsSpace(s[2])
    THEN <<":", " ">> \o lstrip(s)
    ELSE <<Head(s)>> \o alt_name_first(Tail(s))

RECURSIVE alt_name(_)
\* re.sub(r'\s{2,}', ': ', folder_name): every run of two or more
alt_name(s) ==
    IF s = <<>> THEN <<>>
    ELSE IF Len(s) >= 2 /\ IsSpace(s[1]) /\ IsSpace(s[2])
    THEN <<":", " ">> \o alt_name(lstrip(s))
    ELSE <<Head(s)>> \o alt_name(Tail(s))

\* the characters of ' :;,_-', the class [\s:;,_-]
Delims == {" ", ":", ";", ",", "_", "-"}

HasDelim(s) == \E i \in DOMAIN s : s[i] \in Delims

RECURSIVE SplitWords(_, _)
\* re.split(r'[\s:;,_-]+', s) without the empty strings; cur is the word
\* being read
SplitWords(s, cur) ==
    IF s = <<>> THEN (IF cur = <<>> THEN <<>> ELSE <<cur>>)
    ELSE IF Head(s) \in Delims
    THEN (IF cur = <<>> THEN <<>> ELSE <<cur>>) \o SplitWords(Tail(s), <<>>)
    ELSE SplitWords(Tail(s), cur \o <<Head(s)>>)

words_of(s) == SplitWords(s, <<>>)

RECURSIVE SumLen(_)
SumLen(ws) == IF ws = <<>> THEN 0 ELSE Len(Head(ws)) + SumLen(Tail(ws))

LowerStr(s) == [i \in 1..Len(s) |-> Lower(s[i])]

\* w is found in s at position i (case ignored)
OccursAt(w, s, i) ==
    /\ i + Len(w) - 1 <= Len(s)
    /\ \A j \in 1..Len(w) : Lower(s[i + j - 1]) = Lower(w[j])

RECURSIVE InOrderFrom(_, _, _)
\* re.search(".*".join(words), title, re.IGNORECASE), from position i on:
\* the words occur in this order, one after the end of the other
InOrderFrom(ws, s, i) ==
    IF ws = <<>> THEN TRUE
    ELSE \E k \in i..(Len(s) + 1) :
            /\ OccursAt(Head(ws), s, k)
            /\ InOrderFrom(Tail(ws), s, k + Len(Head(ws)))

\* (variant: the lengths are not compared)
fuzzy_match_any_length(title, words) == InOrderFrom(words, title, 1)

\* the filter of the word-based search on one candidate title
fuzzy_match(title, words) ==
    /\ SumLen(words_of(title)) = SumLen(words)
    /\ InOrderFrom(words, title, 1)

\* ------------------------------------------------------- Drive folders
\* tree: folder id -> [title, parent]; id 0 is the root of My Drive ('root').
Root == 0

MyDrive == <<"M", "y", " ", "D", "r", "i", "v", "e">>

Children(tree, parent, order) ==
    LET S == {f \in DOMAIN tree : tree[f].parent = parent}
        nth(i) == CHOOSE f \in S :
                     Cardinality({g \in S : IF order = "asc" THEN g < f ELSE g > f}) = i - 1
    IN  [i \in 1..Cardinality(S) |-> nth(i)]

\* ListFile: "'<parent>' in parents and ... and title='<title>'"
exact_query(tree, parent, title, order) ==
    SelectSeq(Children(tree, parent, order), LAMBDA f : tree[f].title = title)

\* Drive's "title contains '<terms>'": every term is the beginning of a word
\* of the title, case ignored
drive_contains(title, terms) ==
    \A i \in DOMAIN terms :
        \E j \in DOMAIN words_of(title) :
            /\ Len(words_of(title)[j]) >= Len(terms[i])
            /\ LowerStr(SubSeq(words_of(title)[j], 1, Len(terms[i]))) = LowerStr(terms[i])

\* the word-based query, filtered: matches, in the order Drive returned them
word_query(tree, parent, words, order) ==
    SelectSeq(Children(tree, parent, order),
              LAMBDA f : /\ drive_contains(tree[f].title, words)
                         /\ fuzzy_match(tree[f].title, words))

\* file_list = [matches[0]] if matches else []
FirstOf(q) == IF q = <<>> THEN <<>> ELSE <<q[1]>>

\* --------------------------------------------------- find_folder_id
\* One remote call: kind is meta (FetchMetadata), exact, alt, fuzzy or list.
Q(kind, parent, title) == [kind |-> kind, parent |-> parent, title |-> title]

\* What the loop did with one segment: where it stood, how the segment was
\* settled, where it stands afterwards, and the remote calls it made.
SegStep(seg, at, how, to, queries) ==
    [seg |-> seg, at |-> at, how |-> how, to |-> to, queries |-> queries]

\* (variant: an unmatched segment sends the walk back to the root)
finish_reset(seg, at, tree, fail, order, qs, found, how) ==
    IF found = <<>>
    THEN SegStep(seg, at, "soft", Root, qs \o <<Q("list", at, <<>>)>>)
    ELSE SegStep(seg, at, how, found[1], qs)

\* Step 3: no match: list the subfolders for the log and skip the segment;
\* otherwise folder_id = file_list[0]['id']
finish(seg, at, tree, fail, order, qs, found, how) ==
    IF found = <<>>
    THEN SegStep(seg, at, "soft", at, qs \o <<Q("list", at, <<>>)>>)
    ELSE SegStep(seg, at, how, found[1], qs)

\* Step 2: the word-based search
try_words(seg, at, tree, fail, order, qs, found, how) ==
    IF found = <<>> /\ HasDelim(seg)
    THEN IF words_of(seg) = <<>>
         THEN SegStep(seg, at, "nowords", at, qs)
         ELSE finish(seg, at, tree, fail, order,
                     qs \o <<Q("fuzzy", at, words_of(seg))>>,
                     IF "fuzzy" \in fail THEN <<>>
                     ELSE FirstOf(word_query(tree, at, words_of(seg), order)),
                     "fuzzy")
    ELSE finish(seg, at, tree, fail, order, qs, found, how)

\* (variant: the retry is made with the first run only replaced)
try_alt_first(seg, at, tree, fail, order, qs, found) ==
    IF found = <<>> /\ (\A i \in DOMAIN seg : seg[i] # ":") /\ HasSpaceRun(seg)
    THEN try_words(seg, at, tree, fail, order,
                   qs \o <<Q("alt", at, alt_name_first(seg))>>,
                   IF "alt" \in fail THEN <<>>
                   ELSE exact_query(tree, at, alt_name_first(seg), order),
                   "alt")
    ELSE try_words(seg, at, tree, fail, order, qs, found, "exact")

\* Step 1b: the retry with the colon restored
try_alt(seg, at, tree, fail, order, qs, found) ==
    IF found = <<>> /\ (\A i \in DOMAIN seg : seg[i] # ":") /\ HasSpaceRun(seg)
    THEN try_words(seg, at, tree, fail, order,
                   qs \o <<Q("alt", at, alt_name(seg))>>,
                   IF "alt" \in fail THEN <<>>
                   ELSE exact_query(tree, at, alt_name(seg), order),
                   "alt")
    ELSE try_words(seg, at, tree, fail, order, qs, found, "exact")

\* Step 1: the exact match
try_exact(seg, at, tree, fail, order, qs) ==
    try_alt(seg, at, tree, fail, order,
            qs \o <<Q("exact", at, seg)>>,
            IF "exact" \in fail THEN <<>> ELSE exact_query(tree, at, seg, order))

\* the title FetchMetadata gives for a folder, '' if it raises
fetched_title(tree, id, fail) ==
    IF "meta" \in fail \/ id \notin DOMAIN tree THEN <<>> ELSE tree[id].title

\* one iteration of the loop over the segments
resolve_segment(seg, at, tree, fail, order) ==
    IF at # Root /\ normalize(fetched_title(tree, at, fail)) = normalize(seg)
    THEN SegStep(seg, at, "already", at, <<Q("meta", at, <<>>)>>)
    ELSE try_exact(seg, at, tree, fail, order,
                   IF at # Root THEN <<Q("meta", at, <<>>)>> ELSE <<>>)

RECURSIVE resolve_segments(_, _, _, _, _, _)
\* for folder_name in drive_path.split(os.path.sep): ... ; empty names are
\* passed over
resolve_segments(segs, at, tree, fail, order, steps) ==
    IF segs = <<>> THEN [id |-> at, steps |-> steps]
    ELSE IF Head(segs) = <<>>
    THEN resolve_segments(Tail(segs), at, tree, fail, order, steps)
    ELSE resolve_segments(Tail(segs),
                          resolve_segment(Head(segs), at, tree, fail, order).to,
                          tree, fail, order,
                          Append(steps, resolve_segment(Head(segs), at, tree, fail, order)))

\* the first segment of a path taken from a Drive for Desktop shortcut mount
Marker == <<".", "s">>

IdStr(f) == <<ToString(f)>>

\* the folder an id segment names; an id Drive does not know is -1
IdOf(tree, seg) ==
    IF \E f \in DOMAIN tree : IdStr(f) = seg
    THEN CHOOSE f \in DOMAIN tree : IdStr(f) = seg
    ELSE -1

IsShortcut(segments) == Len(segments) >= 3 /\ segments[1] = Marker

\* drive_path as rewritten for a shortcut mount: the two leading segments are
\* dropped and the local alias gives way to the online title, the alias
\* itself if the title cannot be fetched
rewritten(segments, tree, fail) ==
    IF IsShortcut(segments)
    THEN <<IF "meta" \in fail \/ IdOf(tree, segments[2]) \notin DOMAIN tree
           THEN segments[3]
           ELSE tree[IdOf(tree, segments[2])].title>>
         \o SubSeq(segments, 4, Len(segments))
    ELSE segments

\* find_folder_id(drive_path, starting_folder_id): the cache key (drive_path
\* as rewritten), the folder id returned and the steps of the loop
find_folder_id(segments, starting_folder_id, tree, fail, order) ==
    [key |-> rewritten(segments, tree, fail),
     pre |-> IF IsShortcut(segments)
             THEN <<Q("meta", IdOf(tree, segments[2]), <<>>)>> ELSE <<>>,
     found |-> resolve_segments(rewritten(segments, tree, fail),
                                IF IsShortcut(segments) THEN IdOf(tree, segments[2])
                                ELSE starting_folder_id,
                                tree, fail, order, <<>>)]

\* ------------------------------------------------ get_file_drive_path
NoParent == -1

SharedWithMe == <<"S", "h", "a", "r", "e", "d">>

\* what FetchMetadata(fields="id,title,parents") gives for a folder
folder_info(tree, id) ==
    IF id = Root THEN [title |-> MyDrive, parent |-> NoParent]
    ELSE [title |-> tree[id].title, parent |-> tree[id].parent]

RECURSIVE ancestor_walk(_, _, _, _, _)
\* the while loop: every folder from parent_id upwards is taken from the
\* cache or fetched and cached; the fetch of folder failAt raises
ancestor_walk(parent_id, tree, ids, failAt, parts) ==
    IF parent_id \notin DOMAIN ids /\ parent_id = failAt
    THEN [parts |-> parts, ids |-> ids, raised |-> TRUE]
    ELSE LET info == IF parent_id \in DOMAIN ids THEN ids[parent_id]
                     ELSE folder_info(tree, parent_id)
             known == IF parent_id \in DOMAIN ids THEN ids
                      ELSE (parent_id :> info) @@ ids
         IN  IF info.parent = NoParent
             THEN [parts |-> Append(parts, sanitize_filename(info.title)),
                   ids |-> known, raised |-> FALSE]
             ELSE ancestor_walk(info.parent, tree, known, failAt,
                                Append(parts, sanitize_filename(info.title)))

Reverse(q) == [i \in 1..Len(q) |-> q[Len(q) + 1 - i]]

\* (variant: the marker is put first whatever the top title is)
drive_path_marked(parts) ==
    IF parts = <<>> THEN <<>> ELSE <<SharedWithMe>> \o Reverse(parts)

\* "My Drive" at the top is dropped, anything else is put under
\* "Shared With Me"
drive_path_of(parts) ==
    IF parts = <<>> THEN <<>>
    ELSE IF Reverse(parts)[1] = MyDrive THEN Tail(Reverse(parts))
    ELSE <<SharedWithMe>> \o Reverse(parts)

\* ----------------------------------------------------- resolver runs
FolderTitles == {<<"p">>, <<"p", ":", " ", "q">>, <<"p", ":", " ", "q", ":", " ", "r">>}

\* the names of local directories: a colon of the title shows as a space
Segments == {<<"p">>, <<"p", " ", " ", "q">>, <<"p", " ", " ", "q", " ", " ", "r">>}

RECURSIVE SeqsUpTo(_, _)
SeqsUpTo(S, n) ==
    IF n = 0 THEN {<<>>}
    ELSE SeqsUpTo(S, n - 1)
         \cup {Append(q, x) : q \in {r \in SeqsUpTo(S, n - 1) : Len(r) = n - 1}, x \in S}

\* relative paths under My Drive or under a shortcut target, and paths that
\* still carry the shortcut marker, the target id and the local alias
InputPaths ==
    (SeqsUpTo(Segments, MaxSegs) \ {<<>>})
    \cup {<<Marker, IdStr(f), <<"p">>>> : f \in 1..MaxFolders}

\* the remote calls that raise during one call of the resolver
FailSets == {{}, {"exact"}, {"meta", "exact", "alt", "fuzzy", "list"}}

\* the remote calls of a call of the resolver, in the order they were made
QueriesOf(pre, steps) ==
    pre \o Flatten([i \in DOMAIN steps |-> steps[i].queries])

\* the state after find_folder_id gave r: folder_cache[drive_path] = folder_id;
\* res also tells which kinds of remote call raised and the order in which
\* Drive listed folders
Resolved(r, path, start, fail, order) ==
    /\ folder_cache' = [folder_cache EXCEPT !.paths = (r.key :> r.found.id) @@ @]
    /\ res' = [NoRes EXCEPT !.op = "resolve", !.input = path, !.start = start,
                            !.order = order,
                            !.key = r.key, !.id = r.found.id,
                            !.steps = r.found.steps, !.pre = r.pre,
                            !.failed = {k \in fail :
                                          \E i \in DOMAIN QueriesOf(r.pre, r.found.steps) :
                                             QueriesOf(r.pre, r.found.steps)[i].kind = k}]

\* process_path: one input path (of P) is resolved from the root of My Drive
\* or from the target of a shortcut; the remote calls of F raise, Drive lists
\* folders in an order of O; at most limit calls are made in a run. A run
\* given input paths makes no global search.
Resolve(P, F, O, limit) ==
    /\ calls < limit
    /\ res.op # "walk"
    /\ \E path \in P, start \in {Root} \cup DOMAIN folders, fail \in F, order \in O :
          Resolved(find_folder_id(path, start, folders, fail, order), path, start, fail, order)
    /\ calls' = calls + 1
    /\ UNCHANGED <<folders, batch>>
    /\ UNCHANGED dvars

\* the state after the ancestor walk gave w
Walked(w, f) ==
    /\ folder_cache' = [folder_cache EXCEPT !.ids = w.ids]
    /\ res' = [NoRes EXCEPT !.op = "walk", !.start = f, !.raised = w.raised,
                            !.parts = IF w.raised THEN <<>> ELSE drive_path_of(w.parts)]

\* process_global_search: the Drive path of a file whose parent is folder f;
\* a run that makes the global search resolves no input path, and is over
\* once a walk has raised
Walk(limit) ==
    /\ calls < limit
    /\ res.op # "resolve"
    /\ ~res.raised
    /\ \E f \in {Root} \cup DOMAIN folders, failAt \in {NoParent, Root} \cup DOMAIN folders :
          Walked(ancestor_walk(f, folders, folder_cache.ids, failAt, <<>>), f)
    /\ calls' = calls + 1
    /\ UNCHANGED <<folders, batch>>
    /\ UNCHANGED dvars

\* Drive lists the folders oldest first or newest first; the order shows
\* only where two folders of one parent could both match
ListOrders ==
    IF \E f \in DOMAIN folders, g \in DOMAIN folders :
          f # g /\ folders[f].parent = folders[g].parent
    THEN {"asc", "desc"} ELSE {"asc"}

\* MaxFolders folders, each in the root of My Drive or in the folder made
\* before it, the first one possibly shared from elsewhere; nothing has been
\* looked up yet.
InitCache ==
    /\ folders \in [1..MaxFolders -> [title : FolderTitles,
                                       parent : {NoParent, Root} \cup 1..MaxFolders]]
    /\ \A f \in 1..MaxFolders :
          folders[f].parent \in (IF f = 1 THEN {NoParent, Root} ELSE {Root, f - 1})
    /\ folder_cache = EmptyCache
    /\ res = NoRes
    /\ calls = 0
    /\ batch = NoBatch
    /\ remote = <<>>
    /\ fs = {}
    /\ dirExists = FALSE
    /\ cfg = NoCfg
    /\ queue = <<>>
    /\ last = NoCall
    /\ fs0 = {}
    /\ dir0 = FALSE
    /\ runNo = 0
    /\ hist = NoHist
    /\ args = NoArgs

\* a run that resolves input paths of one segment and walks up from files
NextCache ==
    \/ Resolve(SeqsUpTo(Segments, 1) \ {<<>>}, FailSets, {"asc"}, MaxCalls)
    \/ Walk(MaxCalls)

SpecCache == InitCache /\ [][NextCache]_vars

\* the first call of a run, with any input path
NextResolve ==
    \/ Resolve(InputPaths, FailSets, ListOrders, 1)
    \/ Walk(1)

SpecResolve == InitCache /\ [][NextResolve]_vars

\* ------------------------------------------------ the folder traversal
\* find_files_in_drive with its recursion into subfolders. docs is the
\* documents of Drive, document id -> [title, modified, kind, parent].
mime_types == {"document", "spreadsheet", "presentation"}

IsDigit(c) == c \in {"0", "1", "2", "3", "4", "5", "6", "7", "8", "9"}

\* re.match(r"^(.*?)\s*\(\d+\)$", filename): the '(number)' at the end and the
\* white space before it are dropped
strip_duplicate_suffix(filename) ==
    IF \E k \in 1..(Len(filename) - 2) :
          /\ filename[k] = "(" /\ filename[Len(filename)] = ")"
          /\ \A j \in (k + 1)..(Len(filename) - 1) : IsDigit(filename[j])
    THEN rstrip(SubSeq(filename, 1,
                       (CHOOSE k \in 1..(Len(filename) - 2) :
                           /\ filename[k] = "("
                           /\ \A j \in (k + 1)..(Len(filename) - 1) : IsDigit(filename[j])) - 1))
    ELSE filename

\* --newer-than and --older-than, None if not given
NoDates == [newer |-> None, older |-> None]

\* "[and modifiedDate > '<newer_than>'] [and modifiedDate < '<older_than>']"
in_dates(modified, dates) ==
    /\ dates.newer = None \/ modified > dates.newer[1]
    /\ dates.older = None \/ modified < dates.older[1]

\* the query "'<folder_id>' in parents and trashed=false [and title='<filename>']"
\* with the two date terms: the documents it returns that are of one of the
\* three kinds
matching_files(docs, folder_id, filename, dates) ==
    {d \in DOMAIN docs : /\ docs[d].parent = folder_id
                         /\ filename = None \/ docs[d].title = filename
                         /\ dates = NoDates \/ in_dates(docs[d].modified, dates)
                         /\ docs[d].kind \in mime_types}

\* the folders the same query returns
subfolders(tree, folder_id, filename, dates) ==
    SelectSeq(Children(tree, folder_id, "asc"),
              LAMBDA f : /\ filename = None \/ tree[f].title = filename
                         /\ dates = NoDates \/ in_dates(tree[f].modified, dates))

\* (variant: the test is depth <= max_depth)
descends_inclusive(depth, max_depth) == depth <= max_depth

\* if depth < max_depth: recurse into the folders of the listing
descends(depth, max_depth) == depth < max_depth

\* an entry of files_by_title: the document, base_path, and the depth of the
\* call that listed it
Entry(d, base_path, depth) == [id |-> d, path |-> base_path, depth |-> depth]

RECURSIVE find_files_in_tree(_, _, _, _, _, _, _, _)
\* the entries found in folder_id and below, and the folders whose children
\* were listed, in the order of the calls
find_files_in_tree(tree, docs, folder_id, base_path, filename, dates, depth, max_depth) ==
    IF descends(depth, max_depth)
    THEN [files |-> {Entry(d, base_path, depth) : d \in matching_files(docs, folder_id, filename, dates)}
                    \cup UNION {find_files_in_tree(
                                    tree, docs, subfolders(tree, folder_id, filename, dates)[i],
                                    Append(base_path, tree[subfolders(tree, folder_id, filename, dates)[i]].title),
                                    filename, dates, depth + 1, max_depth).files :
                                i \in DOMAIN subfolders(tree, folder_id, filename, dates)},
          listed |-> <<folder_id>>
                     \o Flatten([i \in DOMAIN subfolders(tree, folder_id, filename, dates) |->
                                   find_files_in_tree(
                                       tree, docs, subfolders(tree, folder_id, filename, dates)[i],
                                       Append(base_path, tree[subfolders(tree, folder_id, filename, dates)[i]].title),
                                       filename, dates, depth + 1, max_depth).listed])]
    ELSE [files |-> {Entry(d, base_path, depth) : d \in matching_files(docs, folder_id, filename, dates)},
          listed |-> <<folder_id>>]

\* --max-depth: 0 and up; the largest value stands for the default, float('inf'),
\* a depth no folder of the model has
DepthLimits == 0..(MaxFolders + 1)

\* the state after the traversal gave f: every entry goes to the download
\* handler
Listed_dir(f, folder_id, max_depth, dates) ==
    res' = [NoRes EXCEPT !.op = "dir", !.id = folder_id, !.depth = max_depth,
                         !.dates = dates,
                         !.entries = f.files, !.listed = f.listed,
                         !.downloads = f.files]

\* process_path on a directory that find_folder_id resolved to folder_id,
\* with the date options of D
ProcessDir(limit, D) ==
    /\ calls < limit
    /\ \E folder_id \in {Root} \cup DOMAIN folders, max_depth \in DepthLimits, dates \in D :
          Listed_dir(find_files_in_tree(folders, remote, folder_id, <<>>, None, dates,
                                        0, max_depth),
                     folder_id, max_depth, dates)
    /\ calls' = calls + 1
    /\ UNCHANGED <<folders, folder_cache, batch>>
    /\ UNCHANGED dvars

\* if base_filename in files_by_title: download its entries; else: not found
Listed_file(f, folder_id, filename, max_depth, dates) ==
    res' = [NoRes EXCEPT !.op = "file", !.id = folder_id, !.depth = max_depth,
                         !.dates = dates,
                         !.input = filename, !.key = strip_duplicate_suffix(filename),
                         !.entries = f.files, !.listed = f.listed,
                         !.downloads = {e \in f.files :
                                          remote[e.id].title = strip_duplicate_suffix(filename)}]

\* the names of local files, without the extension .gdoc
FileNames == {<<"p">>, <<"a">>, <<"p", " ", "(", "1", ")">>}

\* process_path on a file of a directory that find_folder_id resolved to
\* folder_id, with the date options of D
ProcessFile(limit, D) ==
    /\ calls < limit
    /\ \E folder_id \in {Root} \cup DOMAIN folders, filename \in FileNames,
          max_depth \in DepthLimits, dates \in D :
          Listed_file(find_files_in_tree(folders, remote, folder_id, <<>>,
                                         strip_duplicate_suffix(filename), dates,
                                         0, max_depth),
                      folder_id, filename, max_depth, dates)
    /\ calls' = calls + 1
    /\ UNCHANGED <<folders, folder_cache, batch>>
    /\ UNCHANGED dvars

FindTitles == {<<"p">>, <<"a">>}

\* the places a document can be in: the root of My Drive and every folder
Places == {Root} \cup (1..MaxFolders)

\* one document titled 'p' in each place of L, numbered from the root down
DocsIn(L) ==
    [i \in 1..Cardinality(L) |->
        [title |-> <<"p">>, modified |-> 0, kind |-> "document",
         parent |-> CHOOSE x \in L : Cardinality({y \in L : y < x}) = i - 1]]

\* MaxFolders folders titled 'p' or 'a', each in the root or in the folder
\* made before it, and a document 'p' in some of the places
InitFind ==
    /\ folders \in [1..MaxFolders -> [title : FindTitles, parent : Places]]
    /\ \A f \in 1..MaxFolders : folders[f].parent \in {Root, f - 1}
    /\ \E L \in SUBSET Places : remote = DocsIn(L)
    /\ folder_cache = EmptyCache
    /\ res = NoRes
    /\ calls = 0
    /\ batch = NoBatch
    /\ fs = {}
    /\ dirExists = FALSE
    /\ cfg = NoCfg
    /\ queue = <<>>
    /\ last = NoCall
    /\ fs0 = {}
    /\ dir0 = FALSE
    /\ runNo = 0
    /\ hist = NoHist
    /\ args = NoArgs

\* the first input path of a run: a directory or a file
NextFind ==
    \/ ProcessDir(1, {NoDates})
    \/ ProcessFile(1, {NoDates})

SpecFind == InitFind /\ [][NextFind]_vars

\* --newer-than the first instant, --older-than the second
DateOptions == {[newer |-> Some(0), older |-> None],
                [newer |-> None, older |-> Some(TicksPerSec)]}

\* MaxFolders folders and MaxDocs documents, each modified at the first
\* instant or a second later; every folder is in the root or in the folder
\* made before it
InitFilter ==
    /\ folders \in [1..MaxFolders -> [title : {<<"p">>}, parent : Places,
                                       modified : {0, TicksPerSec}]]
    /\ \A f \in 1..MaxFolders : folders[f].parent \in {Root, f - 1}
    /\ remote \in [Docs -> [title : {<<"a">>}, modified : {0, TicksPerSec},
                            kind : {"document"}, parent : Places]]
    /\ folder_cache = EmptyCache
    /\ res = NoRes
    /\ calls = 0
    /\ batch = NoBatch
    /\ fs = {}
    /\ dirExists = FALSE
    /\ cfg = NoCfg
    /\ queue = <<>>
    /\ last = NoCall
    /\ fs0 = {}
    /\ dir0 = FALSE
    /\ runNo = 0
    /\ hist = NoHist
    /\ args = NoArgs

\* the first input path of a run given a date option: a directory or a file
NextFilter ==
    \/ ProcessDir(1, DateOptions)
    \/ ProcessFile(1, DateOptions)

SpecFilter == InitFilter /\ [][NextFilter]_vars

\* ------------------------------------------- the loop of the global search
\* process_global_search, lines 688-703, one step of get_file_drive_path at
\* a time. While a walk is under way res.op is "walking", res.id is parent_id
\* (NoParent once the loop is left) and res.parts is path_parts. The ids Drive
\* gives in 'parents' are real ids, never the alias 'root': the walk goes on
\* through the root folder of My Drive, which has no parents.

\* (variant: the cache is never consulted)
never_cached(ids, id) == FALSE

\* if parent_id in folder_cache
cached(ids, id) == id \in DOMAIN ids

\* (variant: the title is not appended and parent_id stays what it is)
walk_on_stuck(r, info) == r

\* path_parts.append(sanitized_title), then parent_id = the first parent of
\* the folder, or break
walk_on(r, info) ==
    [r EXCEPT !.parts = Append(@, sanitize_filename(info.title)), !.id = info.parent]

\* parents[0] of the file, if it has parents
WalkBegin ==
    /\ ~batch.ended
    /\ batch.files # <<>>
    /\ res.op # "walking"
    /\ res' = [NoRes EXCEPT !.op = "walking",
                            !.start = remote[Head(batch.files)].parent,
                            !.id = remote[Head(batch.files)].parent]
    /\ UNCHANGED <<folders, folder_cache, calls, batch>>
    /\ UNCHANGED dvars

\* one iteration of the while loop on a folder that is in the cache
WalkCached ==
    /\ res.op = "walking"
    /\ res.id # NoParent
    /\ cached(folder_cache.ids, res.id)
    /\ res' = walk_on(res, folder_cache.ids[res.id])
    /\ UNCHANGED <<folders, folder_cache, calls, batch>>
    /\ UNCHANGED dvars

\* one iteration on a folder that is not: its metadata is fetched and cached
WalkFetch ==
    /\ res.op = "walking"
    /\ res.id # NoParent
    /\ ~cached(folder_cache.ids, res.id)
    /\ res' = walk_on(res, folder_info(folders, res.id))
    /\ folder_cache' = [folder_cache EXCEPT
                           !.ids = (res.id :> folder_info(folders, res.id)) @@ @]
    /\ batch' = [batch EXCEPT !.fetched = Append(@, res.id)]
    /\ UNCHANGED <<folders, calls>>
    /\ UNCHANGED dvars

\* FetchMetadata raises: nothing catches it in get_file_drive_path,
\* process_global_search or main, the run is over
WalkRaise ==
    /\ res.op = "walking"
    /\ res.id # NoParent
    /\ ~cached(folder_cache.ids, res.id)
    /\ res' = [res EXCEPT !.op = "raised", !.raised = TRUE]
    /\ batch' = [batch EXCEPT !.ended = TRUE]
    /\ UNCHANGED <<folders, folder_cache, calls>>
    /\ UNCHANGED dvars

\* the loop is left: the path is built and the file goes to the download
\* handler with it; the next file of the list is taken
WalkEnd ==
    /\ res.op = "walking"
    /\ res.id = NoParent
    /\ res' = [res EXCEPT !.op = "walk", !.parts = drive_path_of(res.parts)]
    /\ batch' = [batch EXCEPT
                    !.files = Tail(@),
                    !.handled = Append(@, [doc |-> Head(batch.files),
                                           path |-> drive_path_of(res.parts)]),
                    !.ended = Tail(batch.files) = <<>>]
    /\ UNCHANGED <<folders, folder_cache, calls>>
    /\ UNCHANGED dvars

WalkTitles == {<<"p", ":">>, MyDrive}

\* MaxFolders folders, and MaxDocs documents that the global query listed,
\* each in a folder, in the root of My Drive or without parents
InitGlobal ==
    /\ folders \in [1..MaxFolders -> [title : WalkTitles,
                                       parent : {NoParent, Root} \cup 1..MaxFolders]]
    /\ \A f \in 1..MaxFolders :
          folders[f].parent \in (IF f = 1 THEN {NoParent, Root} ELSE {Root, f - 1})
    /\ remote \in [Docs -> [title : {<<"a">>}, modified : {0}, kind : {"document"},
                            parent : {NoParent, Root} \cup 1..MaxFolders]]
    /\ batch = [NoBatch EXCEPT !.files = [i \in 1..MaxDocs |-> i]]
    /\ folder_cache = EmptyCache
    /\ res = NoRes
    /\ calls = 0
    /\ fs = {}
    /\ dirExists = FALSE
    /\ cfg = NoCfg
    /\ queue = <<>>
    /\ last = NoCall
    /\ fs0 = {}
    /\ dir0 = FALSE
    /\ runNo = 0
    /\ hist = NoHist
    /\ args = NoArgs

NextGlobal ==
    \/ WalkBegin
    \/ WalkCached
    \/ WalkFetch
    \/ WalkRaise
    \/ WalkEnd

SpecGlobal == InitGlobal /\ [][NextGlobal]_vars

\* the same search over folders that all have one title, which the walk does
\* not look at
InitWalk ==
    /\ InitGlobal
    /\ \A f \in DOMAIN folders : folders[f].title = <<"p", ":">>

\* the program goes on as long as it has a step to take
SpecGlobalLive == InitWalk /\ [][NextGlobal]_vars /\ WF_vars(NextGlobal)

\* ------------------------------------------------- the word-based search
\* titles that differ from the local names in case and punctuation, or have
\* the same words in another order, a longer word, or no delimiter at all
FuzzyTitles == {<<"P", "-", "q">>, <<"p", ";", "q">>, <<"p", " ", "q", "q">>,
                <<"q", " ", "p">>, <<"p", "q">>}

FuzzySegments == {<<"p", " ", " ", "q">>, <<"q", "_", "p">>}

InitFuzzy ==
    /\ folders \in [1..MaxFolders -> [title : FuzzyTitles,
                                       parent : {NoParent, Root} \cup 1..MaxFolders]]
    /\ \A f \in 1..MaxFolders :
          folders[f].parent \in (IF f = 1 THEN {NoParent, Root} ELSE {Root, f - 1})
    /\ folder_cache = EmptyCache
    /\ res = NoRes
    /\ calls = 0
    /\ batch = NoBatch
    /\ remote = <<>>
    /\ fs = {}
    /\ dirExists = FALSE
    /\ cfg = NoCfg
    /\ queue = <<>>
    /\ last = NoCall
    /\ fs0 = {}
    /\ dir0 = FALSE
    /\ runNo = 0
    /\ hist = NoHist
    /\ args = NoArgs

\* the first call of a run, for a path of one segment
NextFuzzy ==
    \/ Resolve(SeqsUpTo(FuzzySegments, 1) \ {<<>>}, FailSets, ListOrders, 1)

SpecFuzzy == InitFuzzy /\ [][NextFuzzy]_vars

\* ------------------------------------------- the prune pass on file names
\* The prune pass as it sees the disk: files are [dir, name], names and
\* directory names are sequences of characters (".gdoc"'s "gdoc" and the text
\* of a timestamp count as one character each).
MaxFiles == 2         \* files in the output tree before the call

GlobStamps == {0, 1}

\* strftime("%Y-%m-%d_%H-%M-%S") of second s
StampStr(s) == ToString(s)

\* (\d{4}-\d{2}-\d{2}_\d{2}-\d{2}-\d{2}) and datetime.strptime of the group
IsStampStr(c) == \E s \in GlobStamps : StampStr(s) = c

strptime(c) == CHOOSE s \in GlobStamps : StampStr(s) = c

\* f"{base_name}_{timestamp_str}.{file_extension}"
capture_name(base, s) == base \o <<"_", StampStr(s), ".", "docx">>

\* f"{base_name}_*.{file_extension}"
glob_pattern(base) == base \o <<"_", "*", ".", "docx">>

\* fnmatch.translate: the index of the "]" that closes the class opened by
\* pat[1] = "[", 0 if there is none (the "[" is then an ordinary character)
ClassEnd(pat) ==
    LET k1 == IF Len(pat) >= 2 /\ pat[2] = "!" THEN 3 ELSE 2
        k2 == IF Len(pat) >= k1 /\ pat[k1] = "]" THEN k1 + 1 ELSE k1
        J == {j \in k2..Len(pat) : pat[j] = "]"}
    IN  IF J = {} THEN 0 ELSE CHOOSE j \in J : \A i \in J : j <= i

\* c is of the class pat[1..ClassEnd(pat)]
InClass(pat, c) ==
    IF pat[2] = "!"
    THEN \A i \in 3..(ClassEnd(pat) - 1) : pat[i] # c
    ELSE \E i \in 2..(ClassEnd(pat) - 1) : pat[i] = c

RECURSIVE fnmatch(_, _)
\* fnmatch.fnmatch(s, pat): "*" is any run of characters, "?" any one, "[..]"
\* any one of a class
fnmatch(s, pat) ==
    IF pat = <<>> THEN s = <<>>
    ELSE IF Head(pat) = "*"
    THEN \E k \in 0..Len(s) : fnmatch(SubSeq(s, k + 1, Len(s)), Tail(pat))
    ELSE IF s = <<>> THEN FALSE
    ELSE IF Head(pat) = "?" THEN fnmatch(Tail(s), Tail(pat))
    ELSE IF Head(pat) = "[" /\ ClassEnd(pat) # 0
    THEN /\ InClass(pat, Head(s))
         /\ fnmatch(Tail(s), SubSeq(pat, ClassEnd(pat) + 1, Len(pat)))
    ELSE Head(s) = Head(pat) /\ fnmatch(Tail(s), Tail(pat))

\* glob.glob(os.path.join(full_output_directory, pattern)): the directory
\* part and the name part are both matched as patterns
glob(files, dir, base) ==
    {f \in files : fnmatch(f.dir, dir) /\ fnmatch(f.name, glob_pattern(base))}

\* ts_regex.match(os.path.basename(f)): the name is base_name, "_", a
\* timestamp, ".", the extension, every character of base_name taken as it is
ts_regex(name, base) ==
    /\ Len(name) = Len(base) + 4
    /\ SubSeq(name, 1, Len(base)) = base
    /\ name[Len(base) + 1] = "_"
    /\ IsStampStr(name[Len(base) + 2])
    /\ name[Len(base) + 3] = "."
    /\ name[Len(base) + 4] = "docx"

\* the timestamp the prune pass reads from a name that ts_regex matched
ts_of(name, base) == strptime(name[Len(base) + 2])

\* backups_with_ts: the files the glob lists and ts_regex matches
backups_on_disk(files, dir, base) ==
    {f \in glob(files, dir, base) : ts_regex(f.name, base)}

\* backups_with_ts[prune_newest:] of the list sorted newest first, where keep
\* is the element the stable sort puts first
newest_tail(backups, n, keep) == IF n = 0 THEN backups ELSE backups \ {keep}

NoPrune == [base |-> <<>>, dir |-> <<>>, written |-> <<>>, listed |-> {},
            deleted |-> {}, done |-> FALSE]

\* download_google_file_as_ms_office for a document in subfolder dir, live,
\* under --timestamp and --newest: the capture is written, then the prune
\* pass is made. Two files of one timestamp are listed in either order.
PruneNames ==
    /\ ~last.done
    /\ LET base == BaseName(remote[1].title, <<>>)
           dir == remote[1].path
           new == [dir |-> dir,
                   name |-> capture_name(base, timestamp_str(remote[1].modified))]
           backups == backups_on_disk(fs \cup {new}, dir, base)
       IN  \E keep \in {f \in backups : \A g \in backups :
                                            ts_of(g.name, base) <= ts_of(f.name, base)}
                       \cup (IF backups = {} THEN {new} ELSE {}) :
              /\ fs' = (fs \cup {new}) \ newest_tail(backups, cfg.prune_newest[1], keep)
              /\ last' = [base |-> base, dir |-> dir, written |-> new.name,
                          listed |-> backups,
                          deleted |-> newest_tail(backups, cfg.prune_newest[1], keep),
                          done |-> TRUE]
    /\ fs0' = fs
    /\ UNCHANGED <<remote, dirExists, cfg, queue, dir0, runNo, hist, args>>
    /\ UNCHANGED rvars

GlobTitles == {<<"a">>, <<"[", "a", "]">>}

GlobDirs == {<<"a">>, <<"[", "a", "]">>}

\* the names a directory of the output tree may hold: captures, plain copies
\* and files that only look like captures
GlobNames ==
    {capture_name(BaseName(t, <<>>), s) : t \in GlobTitles, s \in GlobStamps}
    \cup {BaseName(t, <<>>) \o <<".", "docx">> : t \in GlobTitles}
    \cup {BaseName(t, <<>>) \o <<"_", "x", ".", "docx">> : t \in GlobTitles}

\* One document, the subfolder its captures go to, up to MaxFiles files in
\* the output tree, and a command line with --timestamp and --newest 0 or 1.
InitGlob ==
    /\ remote \in [{1} -> [title : GlobTitles,
                           modified : {TicksPerSec * s : s \in GlobStamps},
                           kind : {"document"}, path : GlobDirs]]
    /\ fs \in SUBSET [dir : GlobDirs, name : GlobNames]
    /\ Cardinality(fs) <= MaxFiles
    /\ last = NoPrune
    /\ fs0 = fs
    /\ dirExists = TRUE
    /\ cfg \in {[NoCfg EXCEPT !.add_timestamp = TRUE, !.prune_newest = Some(n)] :
                 n \in {0, 1}}
    /\ queue = <<>>
    /\ dir0 = TRUE
    /\ runNo = 0
    /\ hist = NoHist
    /\ args = NoArgs
    /\ NoResolver

NextGlob ==
    \/ PruneNames

SpecGlob == InitGlob /\ [][NextGlob]_vars

\* ------------------------------------------------ the prune pass, repeated
\* The prune block of the handler applied again and again, with the same
\* options, to the captures of one document that earlier runs left in a
\* directory; runNo counts the passes made, fs0 is the directory at the start.
InitRepeat ==
    /\ remote = (1 :> [title |-> <<"a">>, modified |-> 0, kind |-> "document"])
    /\ \E S \in SUBSET Stamps :
          fs = {[base |-> BaseName(remote[1].title, <<>>), ts |-> <<s>>,
                 mtime |-> TicksPerSec * s, content |-> <<1, TicksPerSec * s>>] : s \in S}
    /\ dirExists = TRUE
    /\ \E dry \in BOOLEAN, newest \in Options(MaxN), staggered \in Options(MaxN) :
          /\ newest # None \/ staggered # None
          /\ cfg = [NoCfg EXCEPT
                      !.add_timestamp = TRUE,
                      !.dry_run = dry,
                      !.prune_newest = prune_options(newest, staggered).prune_newest,
                      !.prune_staggered = prune_options(newest, staggered).prune_staggered]
    /\ queue = <<>>
    /\ last = NoCall
    /\ fs0 = fs
    /\ dir0 = dirExists
    /\ runNo = 0
    /\ hist = NoHist
    /\ args = NoArgs
    /\ NoResolver

\* lines 600-655 alone: list the captures, sort them, remove the ones to delete
PruneAgain ==
    /\ runNo < MaxRuns
    /\ \E fault \in (IF hist.faults < MaxFaults
                     THEN {NoFault} \cup {[op |-> "remove", ts |-> s] : s \in Stamps}
                     ELSE {NoFault}),
          order \in {"asc", "desc"} :
          Commit(PrunePass(fs, dirExists,
                           [NoCall EXCEPT !.doc = 1,
                                          !.base = BaseName(remote[1].title, <<>>)],
                           BaseName(remote[1].title, <<>>), cfg, fault,
                           ~cfg.dry_run, order),
                 fault)
    /\ runNo' = runNo + 1
    /\ UNCHANGED <<remote, cfg, queue, fs0, dir0, args>>
    /\ UNCHANGED rvars

NextRepeat ==
    \/ PruneAgain

SpecRepeat == InitRepeat /\ [][NextRepeat]_vars

\* ================================================================ claims
\* The document the next call of the handler is about, while a run is under way.
HeadBase == BaseName(remote[Head(queue).id].title, Head(queue).suffix)
HeadMod == remote[Head(queue).id].modified
HeadStamp == timestamp_str(HeadMod)
HeadPlain == FileAt(fs, HeadBase, Plain)

Called == last # NoCall
Kept == last.captures \ last.deleted
SetMax(S) == CHOOSE x \in S : \A y \in S : y <= x
SetMin(S) == CHOOSE x \in S : \A y \in S : x <= y
AllOk(ops) == \A i \in DOMAIN ops : ops[i].ok

\* the plain target of the next document is the same file after the call
PlainKept ==
    Exists(fs, HeadBase, Plain) =>
        /\ Exists(fs', HeadBase, Plain)
        /\ FileAt(fs', HeadBase, Plain) = HeadPlain

\* sanity of the model: files exist only in an existing directory
DirInv == fs # {} => dirExists

\* C1 (as claimed): in non-timestamped mode, a second live run with the same
\* options, no remote change since the first run started and no filesystem
\* error in either run decides SKIP for every document and changes nothing.
C1_Idempotent ==
    (/\ hist.repeat
     /\ ~cfg.add_timestamp
     /\ ~cfg.dry_run
     /\ hist.faults = 0
     /\ Called)
    => (last.decision = "SKIP" /\ fs = fs0)

\* What a dry run started from the state the current run started from decides
\* for the next document (a dry run leaves that state as it is, see C3).
DryCall ==
    download_google_file_as_ms_office(
        fs0, dir0, Meta(Head(queue).id), Head(queue).suffix,
        [cfg EXCEPT !.dry_run = TRUE], NoFault, HeadMod, "asc").call

\* C2 (as claimed): for every document of a live run that meets no filesystem
\* error, the decision, the pruning keep-set and the pruning delete-set are
\* those a dry run from the same start state reaches for that document.
C2_DryRunParity ==
    [][(queue # <<>> /\ ~cfg.dry_run /\ hist'.faults = 0)
       => (/\ last'.decision = DryCall.decision
           /\ last'.pruned = DryCall.pruned
           /\ last'.deleted = DryCall.deleted
           /\ last'.captures \ last'.deleted = DryCall.captures \ DryCall.deleted)]_vars

\* C3: throughout a dry run the files and the output directory are exactly
\* what they were when the run started.
C3_DryRunFrame == cfg.dry_run => (fs = fs0 /\ dirExists = dir0)

\* a dry-run call that decided to rename, to fetch and to delete captures
C3_Witness ==
    /\ cfg.dry_run
    /\ last.decision = "RENAME"
    /\ last.deleted # {}
    /\ fs = fs0

\* C4 (as claimed): in timestamped mode every call that could create its
\* output directory decides FETCH to the name suffixed with the remote modified
\* timestamp and leaves the plain target alone, whatever --no-clobber says.
C4_AlwaysFetch ==
    [][(queue # <<>> /\ cfg.add_timestamp /\ last'.decision # "ERROR")
       => (/\ last'.decision = "FETCH"
           /\ last'.target = <<HeadStamp>>
           /\ PlainKept)]_vars

\* C4 (amended): in timestamped mode a call that could create its output
\* directory decides SKIP if --no-clobber is set and the plain target exists,
\* and FETCH to the name suffixed with the remote modified timestamp
\* otherwise; it never renames the plain target.
C4_FetchUnlessNoClobber ==
    [][(queue # <<>> /\ cfg.add_timestamp /\ last'.decision # "ERROR")
       => (/\ last'.decision = IF cfg.no_clobber /\ Exists(fs, HeadBase, Plain)
                               THEN "SKIP" ELSE "FETCH"
           /\ last'.target = <<HeadStamp>>
           /\ PlainKept
           /\ (last'.decision = "FETCH" /\ ~cfg.dry_run)
              => \E i \in DOMAIN last'.ops :
                    last'.ops[i].op = "fetch" /\ last'.ops[i].ts = <<HeadStamp>>
           /\ \A i \in DOMAIN last'.ops : last'.ops[i].op # "rename")]_vars

\* a timestamped capture was fetched next to an existing plain target
C4_Witness ==
    /\ cfg.add_timestamp
    /\ ~cfg.dry_run
    /\ last.decision = "FETCH"
    /\ Exists(fs, last.base, Plain)
    /\ Exists(fs, last.base, last.target)
    /\ AllOk(last.ops)

C7_NoClobberSkips ==
    [][(/\ queue # <<>>
        /\ ~cfg.add_timestamp
        /\ cfg.no_clobber
        /\ Exists(fs, HeadBase, Plain))
       => (/\ last'.decision = "SKIP"
           /\ fs' = fs
           /\ ~last'.pruned
           /\ last'.ops = <<>>)]_vars

\* skipped under --no-clobber although the plain target is out of date
C7_Witness ==
    /\ ~cfg.add_timestamp /\ cfg.no_clobber /\ ~cfg.dry_run
    /\ cfg.prune_newest # None
    /\ last.decision = "SKIP"
    /\ Exists(fs, last.base, Plain)
    /\ ~UpToDate(FileAt(fs, last.base, Plain).mtime, remote[last.doc].modified)
    /\ Captures(fs, last.base) # {}

\* C8: a NewestN(n) prune pass over m captures keeps min(n, m) of them, each
\* kept one newer than each deleted one, whatever the order of the glob; a
\* live pass that meets no error leaves exactly the kept ones on disk.
C8_NewestN ==
    (last.pruned /\ cfg.prune_newest # None)
    => (/\ last.deleted \subseteq last.captures
        /\ Cardinality(Kept) = Min(cfg.prune_newest[1], Cardinality(last.captures))
        /\ \A k \in Kept, d \in last.deleted : k > d
        /\ (~cfg.dry_run /\ hist.faults = 0) => Captures(fs, last.base) = Kept)

\* a live NewestN pass deleted two or more captures and kept some
C8_Witness ==
    /\ last.pruned /\ cfg.prune_newest # None /\ ~cfg.dry_run
    /\ cfg.prune_newest[1] >= 2
    /\ Cardinality(last.deleted) >= 2
    /\ Captures(fs, last.base) = Kept

\* C9: a Staggered(n) prune pass with n >= 2 over m >= n captures deletes
\* neither the oldest nor the newest capture.
C9_StaggeredKeepsEnds ==
    (/\ last.pruned
     /\ cfg.prune_staggered # None
     /\ cfg.prune_staggered[1] >= 2
     /\ Cardinality(last.captures) >= cfg.prune_staggered[1])
    => (/\ SetMin(last.captures) \notin last.deleted
        /\ SetMax(last.captures) \notin last.deleted
        /\ ~cfg.dry_run
           => {SetMin(last.captures), SetMax(last.captures)}
                 \subseteq Captures(fs, last.base))

\* a live Staggered(n) pass, n >= 3, deleted captures between the two ends
C9_Witness ==
    /\ last.pruned /\ cfg.prune_staggered # None /\ ~cfg.dry_run
    /\ cfg.prune_staggered[1] >= 3
    /\ Cardinality(last.deleted) >= 2
    /\ {SetMin(last.captures), SetMax(last.captures)} \subseteq Captures(fs, last.base)

\* C10: a Staggered(1) prune pass over m >= 1 captures keeps exactly one, the
\* newest; a live pass that meets no error leaves exactly that one on disk.
C10_StaggeredOne ==
    (/\ last.pruned
     /\ cfg.prune_staggered = Some(1)
     /\ last.captures # {})
    => (/\ Kept = {SetMax(last.captures)}
        /\ (~cfg.dry_run /\ hist.faults = 0)
           => Captures(fs, last.base) = {SetMax(last.captures)})

\* a live Staggered(1) pass deleted all but the newest of three or more captures
C10_Witness ==
    /\ last.pruned /\ cfg.prune_staggered = Some(1) /\ ~cfg.dry_run
    /\ Cardinality(last.deleted) >= 2
    /\ Captures(fs, last.base) = {SetMax(last.captures)}

\* ------------------------------------------------ staggered keep-set
\* the 0-based index of capture s among the captures sorted oldest first
Rank(S, s) == Cardinality({t \in S : t < s})

KeptRanks == {Rank(last.captures, s) : s \in Kept}

\* round(b^(i/d)): the integer k with |k - b^(i/d)| < 1/2
NearestRoot(b, i, d) ==
    CHOOSE k \in 0..(b + 1) :
        /\ k = 0 \/ Pow(2 * k - 1, d) < Pow(2, d) * Pow(b, i)
        /\ Pow(2, d) * Pow(b, i) < Pow(2 * k + 1, d)

\* {0, m-1} together with clamp(round((m-1)^(i/(n-1)))) for i in 1..n-2
ClaimedKeep(m, n) ==
    {0, m - 1} \cup {Min(Max(NearestRoot(m - 1, i, n - 1), 0), m - 1) : i \in 1..(n - 2)}

StaggeredPass(n) ==
    /\ last.pruned
    /\ cfg.prune_staggered = Some(n)
    /\ last.captures # {}

\* C11 (as claimed): a Staggered(n) prune pass, n >= 2, over m captures keeps
\* exactly the captures at the indices {0, m-1} and
\* clamp(round((m-1)^(i/(n-1)))), i in 1..n-2, of the list sorted oldest first.
C11_KeepSetAnyM ==
    \A n \in 2..(MaxKeep + 1) :
        StaggeredPass(n)
        => KeptRanks = ClaimedKeep(Cardinality(last.captures), n)

\* C11 (amended): the same for m > n; over m <= n captures the pass deletes
\* nothing. With m = 5 and n = 3 the 1st, 3rd and 5th capture are kept. A live
\* pass that meets no error leaves exactly the kept captures on disk.
C11_KeepSet ==
    \A n \in 2..(MaxKeep + 1) :
        StaggeredPass(n)
        => LET m == Cardinality(last.captures)
           IN  /\ last.deleted \subseteq last.captures
               /\ m > n => KeptRanks = ClaimedKeep(m, n)
               /\ m <= n => last.deleted = {}
               /\ (m = 5 /\ n = 3) => KeptRanks = {0, 2, 4}
               /\ (~cfg.dry_run /\ hist.faults = 0) => Captures(fs, last.base) = Kept

\* a live Staggered(3) pass over five captures kept the 1st, 3rd and 5th and
\* deleted the 2nd and 4th
C11_Witness ==
    /\ StaggeredPass(3)
    /\ ~cfg.dry_run
    /\ Cardinality(last.captures) = 5
    /\ {Rank(last.captures, s) : s \in last.deleted} = {1, 3}
    /\ {Rank(last.captures, s) : s \in Captures(fs, last.base)} = {0, 2, 4}

\* C12 (as claimed): among the captures a Staggered(n) pass keeps, a gap
\* between two consecutive kept indices is never larger than the gap before
\* it (the one nearer to the oldest capture).
C12_DenseNearNewest ==
    (last.pruned /\ cfg.prune_staggered # None)
    => \A a \in KeptRanks, b \in KeptRanks, c \in KeptRanks :
          (/\ a < b /\ b < c
           /\ \A x \in KeptRanks : ~(a < x /\ x < b) /\ ~(b < x /\ x < c))
          => c - b <= b - a

\* ------------------------------------------------------ bounded growth
HasPolicy == cfg.prune_newest # None \/ cfg.prune_staggered # None

PolicyN == IF cfg.prune_newest # None THEN cfg.prune_newest[1] ELSE cfg.prune_staggered[1]

Failed(ops, name) == \E i \in DOMAIN ops : ops[i].op = name /\ ~ops[i].ok

BothGiven == args.newest # None /\ args.staggered # None

\* C14: with both --newest n and --staggered k on the command line the handler
\* is given NewestN(n) and no staggered count, and a prune pass keeps the
\* min(n, m) most recent captures.
C14_NewestWins ==
    BothGiven
    => (/\ cfg.prune_newest = args.newest
        /\ cfg.prune_staggered = None
        /\ last.pruned
           => (/\ Cardinality(Kept) = Min(args.newest[1], Cardinality(last.captures))
               /\ \A k \in Kept, d \in last.deleted : k > d
               /\ (~cfg.dry_run /\ hist.faults = 0) => Captures(fs, last.base) = Kept))

\* --newest 3 --staggered 3 over five or more captures: the three newest are
\* on disk, where Staggered(3) would have kept the oldest
C14_Witness ==
    /\ args.newest = Some(3) /\ args.staggered = Some(3)
    /\ ~cfg.dry_run
    /\ last.pruned
    /\ Cardinality(last.captures) >= 5
    /\ SetMin(last.captures) \in last.deleted
    /\ Cardinality(Captures(fs, last.base)) = 3

\* ------------------------------------------------- when the pass runs
\* C15: a call that skipped the document (or could not create its directory),
\* or whose download failed, or that was given no retention policy, runs no
\* prune pass: it removes no file and every capture of the base name that was
\* on disk before the call is on disk after it.
C15_PruneOnlyAfterFetch ==
    [][(/\ queue # <<>>
        /\ \/ last'.decision \in {"SKIP", "ERROR"}
           \/ Failed(last'.ops, "fetch")
           \/ ~HasPolicy)
       => (/\ ~last'.pruned
           /\ last'.deleted = {}
           /\ \A i \in DOMAIN last'.ops : last'.ops[i].op # "remove"
           /\ Captures(fs, HeadBase) \subseteq Captures(fs', HeadBase))]_vars

\* the download failed after the rename, under a retention count smaller than
\* the number of captures: all of them are still there
C15_Witness ==
    /\ ~cfg.dry_run /\ HasPolicy
    /\ last.decision = "RENAME"
    /\ Failed(last.ops, "fetch")
    /\ ~last.pruned
    /\ Cardinality(Captures(fs, last.base)) > PolicyN + 1
    /\ Captures(fs0, last.base) \subseteq Captures(fs, last.base)

\* ============================================================ folder cache
ResolveStep == res'.op = "resolve" /\ calls' = calls + 1

\* the folder-lookup queries (ListFile) of the latest call
Lookups(r) == SelectSeq(QueriesOf(r.pre, r.steps), LAMBDA q : q.kind # "meta")

Unresolved(r) == \E i \in DOMAIN r.steps : r.steps[i].how \in {"soft", "nowords"}

\* C16 (as claimed): a call of the resolver for the path and starting folder
\* of the call before it, which resolved every segment and met no error,
\* issues no folder-lookup query and returns the folder id the cache holds
\* for the path.
C16_SecondCallFromCache ==
    [][(/\ ResolveStep
        /\ res.op = "resolve"
        /\ ~Unresolved(res)
        /\ res.failed = {}
        /\ res'.input = res.input
        /\ res'.start = res.start
        /\ res'.key \in DOMAIN folder_cache.paths)
       => (/\ Lookups(res') = <<>>
           /\ res'.id = folder_cache.paths[res'.key])]_vars

\* C17 (as claimed): a call of the resolver that left a segment unresolved,
\* or in which a lookup query failed, writes no entry for its path: the
\* path -> folder id part of the cache is what it was before the call.
C17_NoPartialCached ==
    [][(/\ ResolveStep
        /\ Unresolved(res') \/ res'.failed \ {"meta"} # {})
       => folder_cache'.paths = folder_cache.paths]_vars

\* C18 (as claimed): a key of the cache stays in the cache, with its value,
\* whatever call of the resolver or of the ancestor walk comes next.
C18_WriteOnce ==
    [][/\ \A k \in DOMAIN folder_cache.paths :
             /\ k \in DOMAIN folder_cache'.paths
             /\ folder_cache'.paths[k] = folder_cache.paths[k]
       /\ \A k \in DOMAIN folder_cache.ids :
             /\ k \in DOMAIN folder_cache'.ids
             /\ folder_cache'.ids[k] = folder_cache.ids[k]]_vars

\* ======================================================= segment matching
\* the segments of the model with every run of spaces turned into ": ", as
\* re.sub(r'\s{2,}', ': ', s) gives them
ColonRestored(seg) ==
    IF seg = <<"p", " ", " ", "q">> THEN <<"p", ":", " ", "q">>
    ELSE IF seg = <<"p", " ", " ", "q", " ", " ", "r">>
    THEN <<"p", ":", " ", "q", ":", " ", "r">>
    ELSE seg

\* the same with the first run only turned into ": "
FirstColonRestored(seg) ==
    IF seg = <<"p", " ", " ", "q">> THEN <<"p", ":", " ", "q">>
    ELSE IF seg = <<"p", " ", " ", "q", " ", " ", "r">>
    THEN <<"p", ":", " ", "q", " ", " ", "r">>
    ELSE seg

ChildTitled(at, title) == {f \in DOMAIN folders : folders[f].parent = at /\ folders[f].title = title}

\* the step searched for its segment, the exact-title query gave nothing, and
\* the segment has a run of spaces and no colon
NeedsRecovery(st) ==
    /\ st.how # "already"
    /\ "exact" \in res.failed \/ ChildTitled(st.at, st.seg) = {}
    /\ \A i \in DOMAIN st.seg : st.seg[i] # ":"
    /\ \E i \in 1..(Len(st.seg) - 1) : st.seg[i] = " " /\ st.seg[i + 1] = " "

HasQuery(st, kind) == \E i \in DOMAIN st.queries : st.queries[i].kind = kind

\* the retry is the query right after the exact one, asks for title under the
\* current folder, and a child it finds settles the segment without a
\* word-based query
RecoveredWith(st, title) ==
    /\ \E i \in DOMAIN st.queries :
          /\ st.queries[i] = Q("alt", st.at, title)
          /\ i > 1 /\ st.queries[i - 1] = Q("exact", st.at, st.seg)
    /\ ("alt" \notin res.failed /\ ChildTitled(st.at, title) # {})
       => (/\ st.how = "alt"
           /\ st.to \in ChildTitled(st.at, title)
           /\ ~HasQuery(st, "fuzzy"))

\* C19 (as claimed): the retry asks for the segment with its first run of
\* spaces replaced by ": ".
C19_FirstRunReplaced ==
    res.op = "resolve"
    => \A i \in DOMAIN res.steps :
          NeedsRecovery(res.steps[i])
          => RecoveredWith(res.steps[i], FirstColonRestored(res.steps[i].seg))

\* C19 (amended): the retry asks for the segment with every run of two or
\* more spaces replaced by ": "; a folder titled 'p: q' is found from the
\* segment 'p  q' without the word-based search.
C19_ColonRecovery ==
    res.op = "resolve"
    => \A i \in DOMAIN res.steps :
          NeedsRecovery(res.steps[i])
          => RecoveredWith(res.steps[i], ColonRestored(res.steps[i].seg))

\* the folder 'p: q' was found from the segment 'p  q' by the retry, and
\* under it the folder 'p: q: r' from the segment 'p  q  r'
C19_Witness ==
    /\ res.op = "resolve"
    /\ Len(res.steps) = 2
    /\ res.steps[1].seg = <<"p", " ", " ", "q">>
    /\ res.steps[1].how = "alt"
    /\ folders[res.steps[1].to].title = <<"p", ":", " ", "q">>
    /\ res.steps[2].seg = <<"p", " ", " ", "q", " ", " ", "r">>
    /\ res.steps[2].how = "alt"
    /\ folders[res.steps[2].to].title = <<"p", ":", " ", "q", ":", " ", "r">>
    /\ \A i \in DOMAIN res.steps : ~HasQuery(res.steps[i], "fuzzy")

\* the folder the call started from
StartOf(r) == IF r.pre # <<>> THEN r.pre[1].parent ELSE r.start

\* no child of the folder matches the segment exactly, with the colons
\* restored, or word by word
NoMatch(st) ==
    \A f \in DOMAIN folders :
        folders[f].parent = st.at
        => /\ folders[f].title # st.seg
           /\ folders[f].title # ColonRestored(st.seg)
           /\ ~fuzzy_match(folders[f].title, words_of(st.seg))

\* C20: the loop takes every segment of the path in turn, each from the
\* folder the one before left it in; a segment that matches no child leaves
\* the current folder as it is; the call returns the folder the last segment
\* left it in.
C20_SoftFailure ==
    res.op = "resolve"
    => (/\ Len(res.steps) = Len(res.key)
        /\ \A i \in DOMAIN res.steps :
              /\ res.steps[i].seg = res.key[i]
              /\ res.steps[i].at = IF i = 1 THEN StartOf(res) ELSE res.steps[i - 1].to
              /\ NoMatch(res.steps[i]) => res.steps[i].to = res.steps[i].at
              /\ res.steps[i].how = "soft" => res.steps[i].to = res.steps[i].at
        /\ res.id = IF res.steps = <<>> THEN StartOf(res)
                    ELSE res.steps[Len(res.steps)].to
        /\ res.id \in {Root} \cup DOMAIN folders
        /\ ~res.raised)

\* below a folder other than the root the first segment matched nothing and
\* the second one was found under that same folder
C20_Witness ==
    /\ res.op = "resolve"
    /\ Len(res.steps) = 2
    /\ res.steps[1].at # Root
    /\ res.steps[1].how = "soft"
    /\ res.steps[2].at = res.steps[1].at
    /\ res.steps[2].how = "exact"
    /\ res.id = res.steps[2].to
    /\ folders[res.id].parent = res.steps[1].at

\* ======================================================== folder traversal
\* C21 (as claimed): when the input path names a file and the folder it was
\* resolved to holds no document of that title, no document is handed to the
\* download handler for that input path.
C21_LeafFailure ==
    (/\ res.op = "file"
     /\ ~\E d \in DOMAIN remote : remote[d].parent = res.id /\ remote[d].title = res.key)
    => res.downloads = {}

RECURSIVE LevelBelow(_, _)
\* how many folder levels f lies below start; -1 if it does not lie below it
LevelBelow(f, start) ==
    IF f = start THEN 0
    ELSE IF f \notin DOMAIN folders THEN -1
    ELSE IF LevelBelow(folders[f].parent, start) < 0 THEN -1
    ELSE LevelBelow(folders[f].parent, start) + 1

\* C28: a traversal started with maximum depth d returns only documents whose
\* folder lies at most d levels below the start folder, and lists the children
\* of no folder that lies deeper than d levels below it.
C28_DepthBound ==
    res.op \in {"dir", "file"}
    => (/\ \A e \in res.entries :
              /\ LevelBelow(remote[e.id].parent, res.id) \in 0..res.depth
              /\ e.depth = LevelBelow(remote[e.id].parent, res.id)
        /\ \A i \in DOMAIN res.listed :
              LevelBelow(res.listed[i], res.id) \in 0..res.depth)

\* depth 1 over a chain of two folders: the document of the first folder is
\* returned, the one of the second folder is not, and the second folder is
\* not listed
C28_Witness ==
    /\ res.op = "dir" /\ res.depth = 1
    /\ \E e \in res.entries : LevelBelow(remote[e.id].parent, res.id) = 1
    /\ \E d \in DOMAIN remote :
          /\ LevelBelow(remote[d].parent, res.id) = 2
          /\ \A e \in res.entries : e.id # d
          /\ \A i \in DOMAIN res.listed : res.listed[i] # remote[d].parent

\* ============================================================ global search
\* the documents handed to the download handler so far
Handled == {batch.handled[i].doc : i \in DOMAIN batch.handled}

\* C22 (as claimed): whatever failed on the way, when the loop over the
\* listed files is left every document of the list has been handed to the
\* download handler.
C22_FailureIsolation ==
    batch.ended => Handled = DOMAIN remote

\* C23: over the walks of a run no folder's metadata is fetched twice, and a
\* folder whose metadata was fetched is in the cache with the title and the
\* parent Drive gave.
C23_FetchedOnce ==
    /\ \A i \in DOMAIN batch.fetched, j \in DOMAIN batch.fetched :
          i # j => batch.fetched[i] # batch.fetched[j]
    /\ \A i \in DOMAIN batch.fetched :
          /\ batch.fetched[i] \in DOMAIN folder_cache.ids
          /\ folder_cache.ids[batch.fetched[i]] = folder_info(folders, batch.fetched[i])

\* two documents of one folder went through their walks, the folder was
\* fetched for the first of them only
C23_Witness ==
    /\ Len(batch.handled) >= 2
    /\ remote[batch.handled[1].doc].parent = remote[batch.handled[2].doc].parent
    /\ remote[batch.handled[1].doc].parent \in DOMAIN folders
    /\ Cardinality({i \in DOMAIN batch.fetched :
                       batch.fetched[i] = remote[batch.handled[1].doc].parent}) = 1

RECURSIVE TitlesUp(_)
\* the sanitized titles from folder f up to the top of its chain of parents
TitlesUp(f) ==
    IF f = NoParent THEN <<>>
    ELSE <<sanitize_filename(folder_info(folders, f).title)>>
         \o TitlesUp(folder_info(folders, f).parent)

TitlesDown(f) == Reverse(TitlesUp(f))

RECURSIVE Owned(_)
\* the chain of parents of f ends in the root of My Drive
Owned(f) ==
    IF f = Root THEN TRUE
    ELSE IF f = NoParent THEN FALSE
    ELSE Owned(folders[f].parent)

\* the path the claim gives to a document whose first parent is f
ClaimedPath(f) ==
    IF TitlesDown(f) # <<>> /\ TitlesDown(f)[1] = MyDrive
    THEN Tail(TitlesDown(f))
    ELSE <<SharedWithMe>> \o TitlesDown(f)

\* C24 (as claimed): the path is the chain of sanitized titles from the top
\* down, without a top title 'My Drive' and under the marker otherwise; a
\* document that is not in the hierarchy of My Drive is under the marker.
C24_PathShape ==
    \A i \in DOMAIN batch.handled :
        /\ batch.handled[i].path = ClaimedPath(remote[batch.handled[i].doc].parent)
        /\ ~Owned(remote[batch.handled[i].doc].parent)
           => (/\ batch.handled[i].path # <<>>
               /\ batch.handled[i].path[1] = SharedWithMe)

\* C24 (amended): a document without parents gets the empty path; any other
\* gets the chain of sanitized titles from the top down, without the top
\* title if that is 'My Drive' and under the marker otherwise.
C24_PathShapeOfParents ==
    \A i \in DOMAIN batch.handled :
        batch.handled[i].path =
            IF remote[batch.handled[i].doc].parent = NoParent THEN <<>>
            ELSE ClaimedPath(remote[batch.handled[i].doc].parent)

\* a document of a shared folder is under the marker, and one of a folder of
\* My Drive is not
C24_Witness ==
    /\ \E i \in DOMAIN batch.handled :
          /\ ~Owned(remote[batch.handled[i].doc].parent)
          /\ Len(batch.handled[i].path) = 2
          /\ batch.handled[i].path[1] = SharedWithMe
    /\ \E i \in DOMAIN batch.handled :
          /\ Owned(remote[batch.handled[i].doc].parent)
          /\ Len(batch.handled[i].path) = 1
          /\ batch.handled[i].path[1] # SharedWithMe

\* C30: a walk that has begun comes to its end, whatever the folders above
\* the document are: it leaves the loop at a folder without parents and
\* returns, or a fetch raises.
C30_WalkTerminates ==
    [](res.op = "walking" => <>(res.op \in {"walk", "raised"}))

\* a walk through two folders and the root of My Drive has returned
C30_Witness ==
    /\ res.op = "walk"
    /\ res.start \in DOMAIN folders
    /\ Len(TitlesUp(res.start)) = 3
    /\ Len(res.parts) = 2

\* ======================================================== word-based search
\* the characters of s that belong to its tokens
TokenChars(s) == Cardinality({i \in DOMAIN s : s[i] \notin Delims})

\* the title has as many token characters as the segment and holds the
\* segment's words in their order, case ignored
Accepts(title, seg) ==
    /\ TokenChars(title) = TokenChars(seg)
    /\ InOrderFrom(words_of(seg), title, 1)

\* the folders under at that the listing of the word query returns and the
\* filter accepts
Accepted(st) ==
    {f \in DOMAIN folders : /\ folders[f].parent = st.at
                            /\ drive_contains(folders[f].title, words_of(st.seg))
                            /\ Accepts(folders[f].title, st.seg)}

\* f comes before g in the listing
ListedBefore(f, g) == IF res.order = "asc" THEN f < g ELSE f > g

\* C29: a step settled by the word search took an accepted folder, the first
\* of them in the order of the listing; a word search that was made, did not
\* raise and accepted no folder leaves the segment unresolved.
C29_FuzzyChoice ==
    res.op = "resolve"
    => \A i \in DOMAIN res.steps :
          /\ res.steps[i].how = "fuzzy"
             => (/\ res.steps[i].to \in Accepted(res.steps[i])
                 /\ \A f \in Accepted(res.steps[i]) :
                       f # res.steps[i].to => ListedBefore(res.steps[i].to, f))
          /\ (/\ HasQuery(res.steps[i], "fuzzy")
              /\ "fuzzy" \notin res.failed
              /\ Accepted(res.steps[i]) = {})
             => (/\ res.steps[i].how = "soft"
                 /\ res.steps[i].to = res.steps[i].at)
          /\ (/\ HasQuery(res.steps[i], "fuzzy")
              /\ "fuzzy" \notin res.failed
              /\ Accepted(res.steps[i]) # {})
             => res.steps[i].how = "fuzzy"

\* two folders of different titles are accepted for 'p  q'; Drive listed the
\* younger first and it was taken
C29_Witness ==
    /\ res.op = "resolve" /\ res.order = "desc"
    /\ Len(res.steps) = 1
    /\ res.steps[1].how = "fuzzy"
    /\ Cardinality(Accepted(res.steps[1])) = 2
    /\ \E f \in Accepted(res.steps[1]) :
          /\ f < res.steps[1].to
          /\ folders[f].title # folders[res.steps[1].to].title

\* ================================================== the name of a backup
\* the stamp of the rename that the last call made, if it made one
RenameStamps ==
    {last.ops[i].ts[1] : i \in {j \in DOMAIN last.ops :
                                    last.ops[j].op = "rename" /\ last.ops[j].ok}}

\* C26: a file that the last call renamed to a backup carries in its name the
\* second of its own modification time.
C26_BackupNamedByOwnMtime ==
    \A s \in RenameStamps :
       \A f \in fs : (f.base = last.base /\ f.ts = <<s>>) => timestamp_str(f.mtime) = s

\* ================================================ the stamp in a name
\* the stamps of the names that the last call gave: of the capture it wrote
\* under --timestamp and of the backup it renamed the plain copy to
StampsMade ==
    {last.ops[i].ts[1] : i \in {j \in DOMAIN last.ops :
                                    /\ last.ops[j].op \in {"fetch", "rename"}
                                    /\ last.ops[j].ok
                                    /\ last.ops[j].ts # Plain}}

NextUnsupported ==
    /\ queue # <<>>
    /\ get_export_mimetype(remote[Head(queue).id].kind) = None

\* C27: the call for a document whose kind has no export format leaves the
\* directory as it was (it is not created, no file is renamed, written or
\* deleted, no prune pass is made) and the rest of the batch is still to be
\* processed.
C27_UnsupportedSkipped ==
    [][(NextUnsupported /\ last' # last)
       => /\ fs' = fs
          /\ dirExists' = dirExists
          /\ last'.doc = Head(queue).id
          /\ last'.decision = "UNSUPPORTED"
          /\ last'.ops = <<>>
          /\ ~last'.pruned
          /\ queue' = Tail(queue)]_vars

\* a document of a supported kind was fetched into a directory that the call
\* for a document of an unsupported kind, earlier in the same batch, had not
\* made, under a retention option
C27_Witness ==
    /\ ~dir0
    /\ cfg.prune_newest # None
    /\ ~cfg.dry_run
    /\ queue = <<>>
    /\ last.decision = "FETCH"
    /\ last.ops[1] = Op("mkdir", Plain, TRUE)
    /\ \E d \in DOMAIN remote : /\ d # last.doc
                                /\ get_export_mimetype(remote[d].kind) = None

\* ========================================================= exact descent
RECURSIVE Descend(_, _)
\* the folder reached from at by going down one level per segment, each
\* segment being the title of exactly one child; -2 if a segment is not
Descend(segs, at) ==
    IF segs = <<>> THEN at
    ELSE IF Cardinality({f \in DOMAIN folders :
                            folders[f].parent = at /\ folders[f].title = Head(segs)}) = 1
    THEN Descend(Tail(segs),
                 CHOOSE f \in DOMAIN folders :
                    folders[f].parent = at /\ folders[f].title = Head(segs))
    ELSE -2

\* C31 (as claimed): a call of the resolver in which no remote call raised,
\* for a path whose every segment is the title of exactly one child of the
\* folder reached so far, returns the folder reached by going down one level
\* per segment.
C31_ExactDescent ==
    (/\ res.op = "resolve"
     /\ res.failed = {}
     /\ ~IsShortcut(res.input)
     /\ Descend(res.input, res.start) # -2)
    => res.id = Descend(res.input, res.start)

\* ============================================== the previous version
\* the run is live, without --timestamp and without a retention option, and
\* began with a plain copy of the document that is a second or more away
\* from the document's modified time
StalePlainRun ==
    /\ last.doc # 0
    /\ ~cfg.add_timestamp /\ ~cfg.dry_run
    /\ cfg.prune_newest = None /\ cfg.prune_staggered = None
    /\ Exists(fs0, last.base, Plain)
    /\ ~UpToDate(FileAt(fs0, last.base, Plain).mtime, remote[last.doc].modified)

\* C32 (as claimed): after the document has been processed in such a run, the
\* content its plain copy had is still in the directory, under the backup
\* name or as the plain target, whichever filesystem call raised.
C32_PreviousKept ==
    StalePlainRun
    => \E f \in fs : /\ f.base = last.base
                     /\ f.content = FileAt(fs0, last.base, Plain).content

\* ============================================ distinct documents, distinct files
\* the base name the handler gives to an entry of the batch
BaseOf(e) == BaseName(remote[e.id].title, e.suffix)

\* C33 (as claimed): two entries of a batch that are for different documents
\* (all of them are written to one directory) have different base names.
C33_DistinctBases ==
    \A i \in DOMAIN queue, j \in DOMAIN queue :
       queue[i].id # queue[j].id => BaseOf(queue[i]) # BaseOf(queue[j])

\* ============================================== the capture just fetched
\* the last call was live, under --timestamp and a retention count of one or
\* more, wrote its capture and made its prune pass
FetchedThenPruned ==
    /\ cfg.add_timestamp /\ ~cfg.dry_run
    /\ \/ cfg.prune_newest # None /\ cfg.prune_newest # Some(0)
       \/ cfg.prune_staggered # None /\ cfg.prune_staggered # Some(0)
    /\ last.decision = "FETCH"
    /\ last.pruned
    /\ last.target # Plain

\* C34 (as claimed): the capture such a call fetched is not among those its
\* prune pass set out to delete, whatever captures were there.
C34_FetchedSurvives ==
    FetchedThenPruned => last.target[1] \notin last.deleted

\* C34: the capture such a call fetched is not among those its prune pass set
\* out to delete, and is in the directory afterwards, if no capture that was
\* there carries a later stamp.
C34_NewestFetchedSurvives ==
    (/\ FetchedThenPruned
     /\ \A s \in last.captures : s <= last.target[1])
    => /\ last.target[1] \notin last.deleted
       /\ Exists(fs, last.base, last.target)

\* a prune pass deleted older captures and left the one just fetched
C34_Witness ==
    /\ FetchedThenPruned
    /\ \A s \in last.captures : s <= last.target[1]
    /\ ~Exists(fs0, last.base, last.target)
    /\ last.deleted # {}
    /\ Exists(fs, last.base, last.target)

\* ========================================================= the prune frame
\* C35 (as claimed): every file a prune pass deleted was in the document's
\* output directory and was named <base>_<timestamp>.<ext> with the
\* document's base name.
C35_PruneFrame ==
    last.done
    => \A f \in fs0 \ fs : /\ f.dir = last.dir
                           /\ \E s \in GlobStamps : f.name = capture_name(last.base, s)

\* C37 (as claimed): the capture the call wrote, and every capture of the
\* document's base name that was in its output directory, is listed by the
\* prune pass, with the timestamp that is in its name.
C37_NameRoundTrip ==
    last.done
    => \A s \in GlobStamps :
          [dir |-> last.dir, name |-> capture_name(last.base, s)] \in fs0 \cup fs
          => /\ [dir |-> last.dir, name |-> capture_name(last.base, s)] \in last.listed
             /\ ts_of(capture_name(last.base, s), last.base) = s

\* ======================================================= filtered traversal
\* C36 (as claimed): a traversal of a directory with a date option returns
\* every document of a supported kind that lies within the depth bound under
\* the start folder and whose modified time satisfies the option.
C36_FilteredComplete ==
    (res.op = "dir" /\ res.dates # NoDates)
    => \A d \in DOMAIN remote :
          (/\ remote[d].kind \in mime_types
           /\ LevelBelow(remote[d].parent, res.id) \in 0..res.depth
           /\ in_dates(remote[d].modified, res.dates))
          => \E e \in res.entries : e.id = d

\* ======================================================= repeated pruning
\* a prune pass made after at least one earlier pass
LaterPass == runNo >= 1 /\ runNo' = runNo + 1

====
